---- MODULE Spec2Model ----
(***************************************************************************)
(* A model of the VoiceChat turn-taking pipeline.                          *)
(*                                                                         *)
(*   Spec        the orchestrator loop of main.py, the generation worker   *)
(*               (llm/llm_client.py) and the synthesis and playback        *)
(*               threads (tts/piper_tts.py); the VAD and the recognizer    *)
(*               appear as the two calls they make into this part          *)
(*               (trigger_barge_in, asr_text_q.put).                       *)
(*   SpecFlag    SharedState.trigger_barge_in / consume_barge_in at the    *)
(*               granularity of the mutex (state.py).                      *)
(*   SpecVad     VADWorker._run: calibration, then detection.              *)
(*   SpecFanout  AudioInput._callback and its two consumer queues.         *)
(*   SpecAsr     WhisperASRWorker._run: pre-roll ring, utterance buffer.   *)
(*   SpecMarks   SpecAsr, recording when each VAD event was put.           *)
(*   SpecSeg     the orchestrator and the generation worker: the token     *)
(*               pass and its cutting of the stream into sentences.        *)
(*   SpecSynth   the orchestrator, the generation and the synthesis        *)
(*               worker: supersession, cancellation, generation failure.   *)
(*   SpecOrder   the synthesis worker and the playback thread under any    *)
(*               orchestrator: the order of clips.                         *)
(*   SpecStop    the orchestrator and the generation worker with Ctrl+C.   *)
(*   SpecPass    the orchestrator and the synthesis worker under any      *)
(*               stream of tokens: the puts of the three passes.           *)
(*   SpecDet     the detection phase of VADWorker._run, recording the      *)
(*               events put and the noise bursts.                          *)
(*   SpecEnd     Spec, recording the streams that raised.                  *)
(*   SpecLeak    Spec, recording the turns a barge-in cancelled.           *)
(*                                                                         *)
(* The variable watch names the histories a run records; a history that    *)
(* is not watched keeps its initial value.                                 *)
(*                                                                         *)
(* Every thread is a program counter plus its locals; one action is one    *)
(* atomic access to shared memory (a queue operation, an Event operation,  *)
(* a SharedState call) together with the thread-local code around it.      *)
(* Text is a sequence of one-character strings.                            *)
(***************************************************************************)
EXTENDS Integers, Sequences, FiniteSets, TLC

\* ------------------------------------------------------------------ bounds
\* Transcripts (turns) the recognizer delivers in one run.
MaxTurns == 2
\* Text fragments the generation streams of one run yield in total.
MaxTokens == 2
\* Capacity of llm_in_q, llm_out_q, tts_text_q, play_q and asr_text_q.
QueueCap == 2
\* trigger_barge_in calls in one run of Spec.
MaxTriggers == 2

\* ------------------------------------------------------------------- state
VARIABLES
    \* SharedState
    state,            \* BotState
    barge_in,         \* the barge-in flag
    stop_event,       \* shutdown
    \* main(): events, queues, locals
    stop_llm_event, stop_tts_event,
    asr_text_q, llm_in_q, llm_out_q, tts_text_q,
    full_response, sentence_buffer,
    main_pc, user_text, tok,
    \* LLMWorker._run
    llm_pc, llm_req, llm_token,
    alphabet,         \* the fragments the streams of this run draw from
    \* PiperTTSWorker.run
    tts_pc, tts_text, wav_path,
    \* PiperTTSWorker._play_loop
    play_q, play_pc, play_wav,
    \* history of the run (not program state)
    nTurns, nTriggers, nTokens,
    obs,              \* distinct BotState values seen since the first dispatch
    iterBarged,       \* this orchestrator iteration cancelled a turn
    iterDispatched,   \* this orchestrator iteration dispatched a transcript
    flagTurns,        \* turns in flight when the pending barge-in flag was set
    passTurns,        \* flagTurns of the flag the running barge-in pass consumed
    bargedTurns,      \* flagTurns of every completed barge-in pass
    watch,            \* the histories this run records
    segIn,            \* what the token pass took since the accumulators were reset
    segOut,           \* the sentences it flushed since then
    superseded,       \* turns followed by another dispatch in the same transcript pass
    synthCancelled,   \* stop_tts_event was set while the synthesizer call was running
    failedTurns,      \* turns whose generation raised
    played,           \* the clips whose playback started
    cancelled,        \* turns dispatched before a barge-in pass that cancelled
    lastTurn,         \* the turn of the last transcript dispatched
    \* SharedState's mutex and the two threads that use the barge-in flag
    lock,             \* the holder of SharedState._lock
    trig_pc,          \* the VAD thread inside trigger_barge_in
    cons_pc, val,     \* the orchestrator inside consume_barge_in, and its val
    trigSince,        \* history: trigger_barge_in calls since the last consume
    trigSeen,         \* history: trigSince as the last consume found it
    trigPrev,         \* history: trigSeen of the consume before the last
    \* the audio side: the clock, AudioInput's two consumer queues, the events
    now,              \* time.time(), in ticks of 100 ms
    audio_q_vad, audio_q_asr, vad_events_q,
    \* VADWorker._run
    vad_pc, baseline_energies, energy_threshold,
    is_speaking, speech_start_time, last_voice_time,
    nFrames,          \* history: frames _callback has been called with
    \* AudioInput._callback
    cb_pc, frame,
    levels,           \* the energies the frames of this run take
    accepted,         \* history: per consumer, the frames a put_nowait enqueued
    refused,          \* history: per consumer, the frames that met a full queue
    taken,            \* history: per consumer, the frames its reader has taken
    \* WhisperASRWorker._run
    asr_pc, listening, buffer_frames, pre_roll,
    nEvents,          \* history: events put on vad_events_q by its producer
    consumed,         \* history: the frames the worker has read, in order
    snapshot,         \* history: the last frames read when voice_started was handled
    nCalls,           \* history: calls of the recognizer
    payload,          \* history: the frames of the last call
    paySnap,          \* history: snapshot at the last call
    lastHandled,      \* history: the last event handled to its end
    endedRun,         \* history: voice_ended events taken since the last voice_started
    callsRun,         \* history: calls of the recognizer since the last voice_started
    marks,            \* history: frames captured when each queued event was put
    startMark,        \* history: the mark of the last voice_started handled
    endMark,          \* history: the mark of the last voice_ended handled
    emitted,          \* history: the events the VAD has put, in order
    quietSeen,        \* history: a frame at or below the threshold was read
                      \* since the pending timer was started
    bursts            \* history: pending timers cleared as noise bursts

sharedVars == <<state, barge_in, stop_event>>
mainVars == <<stop_llm_event, stop_tts_event, asr_text_q, llm_in_q, llm_out_q,
              tts_text_q, full_response, sentence_buffer, main_pc, user_text, tok>>
llmVars == <<llm_pc, llm_req, llm_token, alphabet>>
ttsVars == <<tts_pc, tts_text, wav_path>>
playVars == <<play_q, play_pc, play_wav>>
histVars == <<nTurns, nTriggers, nTokens, obs, iterBarged, iterDispatched,
              flagTurns, passTurns, bargedTurns>>

segHist == <<segIn, segOut>>
notes == <<superseded, synthCancelled, failedTurns, played, cancelled, lastTurn>>

turnVars == <<sharedVars, mainVars, llmVars, ttsVars, playVars, histVars, segHist,
              notes, watch>>
turnButAsrText == <<sharedVars, stop_llm_event, stop_tts_event, llm_in_q, llm_out_q,
                    tts_text_q, full_response, sentence_buffer, main_pc, user_text, tok,
                    llmVars, ttsVars, playVars, histVars, segHist, notes,
                    watch>>

flagVars == <<lock, trig_pc, cons_pc, val, trigSince, trigSeen, trigPrev>>

\* What the actions of Spec leave alone.
audioVars == <<now, audio_q_vad, audio_q_asr, vad_events_q, nFrames>>
cbVars == <<cb_pc, frame, levels, accepted, refused, taken>>
vadVars == <<vad_pc, baseline_energies, energy_threshold,
             is_speaking, speech_start_time, last_voice_time>>

vadHist == <<emitted, quietSeen, bursts>>

asrVars == <<asr_pc, listening, buffer_frames, pre_roll>>
asrHist == <<nEvents, consumed, snapshot, nCalls, payload, paySnap, lastHandled,
             endedRun, callsRun, marks, startMark, endMark>>

notSegVars == <<flagVars, audioVars, cbVars, vadVars, vadHist, asrVars, asrHist, watch>>
notTurnVars == <<notSegVars, segHist, notes>>

vars == <<turnVars, flagVars, audioVars, cbVars, vadVars, vadHist, asrVars, asrHist>>

\* ------------------------------------------------------------------- text
IDLE == "IDLE"
LISTENING == "LISTENING"
THINKING == "THINKING"
SPEAKING == "SPEAKING"
BotState == {IDLE, LISTENING, THINKING, SPEAKING}

\* The sentinel the generation worker puts after a reply.
LLM_END == <<"[LLM_END]">>

\* The fragments a generation stream yields: a word, the end of a sentence,
\* white space.
Tokens == { <<"H", "e", "l", "l", "o">>,
            <<" ", "t", "h", "e", "r", "e", ".">>,
            <<" ">> }

\* The fragments the streams of Spec yield.
TurnTokens == { <<"H", "e", "l", "l", "o">>, <<" ", "t", "h", "e", "r", "e", ".">> }

Whitespace == {" "}

\* A test that knows the question mark and the exclamation mark only.
HasTerminal_Mutant(t) == \E i \in 1..Len(t) : t[i] \in {"?", "!"}

\* any(c in ".?!" for c in tok)
HasTerminal(t) == \E i \in 1..Len(t) : t[i] \in {".", "?", "!"}

RECURSIVE LStrip(_)
LStrip(s) == IF s # <<>> /\ Head(s) \in Whitespace THEN LStrip(Tail(s)) ELSE s

RECURSIVE RStrip(_)
RStrip(s) ==
    IF s # <<>> /\ s[Len(s)] \in Whitespace
    THEN RStrip(SubSeq(s, 1, Len(s) - 1)) ELSE s

\* str.strip()
Strip(s) == RStrip(LStrip(s))


\* ----------------------------------------------------------- SharedState
\* C23 mutant: the method leaves the flag as it finds it.
trigger_barge_in_Mutant(flag) == flag

\* SharedState.trigger_barge_in: the new value of the flag.
trigger_barge_in(flag) == TRUE

\* C25 mutant: the flag is returned and left as it is.
consume_barge_in_Mutant(flag) == [val |-> flag, flag |-> flag]

\* SharedState.consume_barge_in: the value returned and the new value of the flag.
consume_barge_in(flag) == [val |-> flag, flag |-> FALSE]

\* Longest history of BotState values kept in obs.
MaxObs == 6

\* obs after set_state(new): the distinct values seen, while a turn is followed.
ObsAfter(new) ==
    IF obs = <<>> \/ new = state \/ Len(obs) >= MaxObs THEN obs ELSE Append(obs, new)

NoText == <<>>
NoItem == [turn |-> 0, text |-> <<>>]

Range(q) == {q[i] : i \in 1..Len(q)}

\* The turns whose reply is in flight: the generation worker is streaming
\* tokens for it, a sentence of it is queued or being synthesized, or a clip
\* of it is queued or playing.
InFlight ==
    (IF llm_pc \in {"stream", "put_tok"} THEN {llm_req} ELSE {})
    \cup {s.turn : s \in Range(tts_text_q)}
    \cup (IF tts_pc = "synth" THEN {tts_text.turn} ELSE {})
    \cup {c.turn : c \in Range(play_q)}
    \cup (IF play_pc = "playing" THEN {play_wav.turn} ELSE {})

\* ------------------------------------------------------------------- Init
InitTurn ==
    /\ state = IDLE /\ barge_in = FALSE /\ stop_event = FALSE
    /\ stop_llm_event = FALSE /\ stop_tts_event = FALSE
    /\ asr_text_q = <<>> /\ llm_in_q = <<>> /\ llm_out_q = <<>> /\ tts_text_q = <<>>
    /\ full_response = NoText /\ sentence_buffer = NoText
    /\ main_pc = "start" /\ user_text = 0 /\ tok = NoItem
    /\ llm_pc = "get" /\ llm_req = 0 /\ llm_token = NoText
    /\ tts_pc = "get" /\ tts_text = NoItem /\ wav_path = NoItem
    /\ play_q = <<>> /\ play_pc = "get" /\ play_wav = NoItem
    /\ nTurns = 0 /\ nTriggers = 0 /\ nTokens = 0 /\ obs = <<>>
    /\ iterBarged = FALSE /\ iterDispatched = FALSE
    /\ flagTurns = {} /\ passTurns = {} /\ bargedTurns = {}
    /\ segIn = <<>> /\ segOut = <<>>
    /\ superseded = {} /\ synthCancelled = FALSE /\ failedTurns = {} /\ played = <<>>
    /\ cancelled = {} /\ lastTurn = 0

InitFlag ==
    /\ lock = "none" /\ trig_pc = "idle" /\ cons_pc = "idle" /\ val = FALSE
    /\ trigSince = 0 /\ trigSeen = 0 /\ trigPrev = 0

\* Python's None, for speech_start_time and last_voice_time.
None == -1

InitAudio ==
    /\ now = 0 /\ audio_q_vad = <<>> /\ audio_q_asr = <<>> /\ vad_events_q = <<>>
    /\ nFrames = 0

\* Energies are in units of 0.5e-7, and even, so that a median is a whole
\* number: mean(frame ** 2) of a silent, a quiet and a loud frame.
Energies == {0, 2, 40}

\* The two consumers of the capture callback.
Consumers == {"vad", "asr"}
NoFrame == [seq |-> 0, energy |-> 0]

InitCallback ==
    /\ cb_pc = "idle" /\ frame = NoFrame
    /\ accepted = [c \in Consumers |-> <<>>]
    /\ refused = [c \in Consumers |-> {}]
    /\ taken = [c \in Consumers |-> 0]

InitVad ==
    /\ vad_pc = "cal_test" /\ baseline_energies = <<>> /\ energy_threshold = 0
    /\ is_speaking = FALSE /\ speech_start_time = None /\ last_voice_time = None
    /\ emitted = <<>> /\ quietSeen = FALSE /\ bursts = 0

InitAsr ==
    /\ asr_pc = "test" /\ listening = FALSE /\ buffer_frames = <<>> /\ pre_roll = <<>>
    /\ nEvents = 0 /\ consumed = <<>> /\ snapshot = <<>>
    /\ nCalls = 0 /\ payload = <<>> /\ paySnap = <<>> /\ lastHandled = "none"
    /\ endedRun = 0 /\ callsRun = 0
    /\ marks = <<>> /\ startMark = 0 /\ endMark = 0

InitThreads == InitTurn /\ InitFlag /\ InitAudio /\ InitCallback /\ InitVad /\ InitAsr

\* The microphone hears silence, quiet sound and loud sound.
Init == InitThreads /\ levels = Energies /\ alphabet = TurnTokens /\ watch = {}

\* The microphone hears silence only.
InitSilent == InitThreads /\ levels = {0} /\ alphabet = TurnTokens /\ watch = {}

\* ------------------------------------------------- the orchestrator, main()
\* shared.set_state(BotState.LISTENING, reason="Voice loop started")
MainStart ==
    /\ UNCHANGED notTurnVars
    /\ main_pc = "start"
    /\ state' = LISTENING
    /\ obs' = ObsAfter(LISTENING)
    /\ main_pc' = "consume"
    /\ UNCHANGED <<barge_in, stop_event, stop_llm_event, stop_tts_event, asr_text_q,
                   llm_in_q, llm_out_q, tts_text_q, full_response, sentence_buffer,
                   user_text, tok, llmVars, ttsVars, playVars, nTurns, nTriggers,
                   nTokens, iterBarged, iterDispatched, flagTurns, passTurns, bargedTurns>>

\* while not shared.stop_event.is_set(): if shared.consume_barge_in():
MainConsume ==
    /\ UNCHANGED notTurnVars
    /\ main_pc = "consume"
    /\ ~stop_event
    /\ LET r == consume_barge_in(barge_in) IN
        /\ barge_in' = r.flag
        /\ main_pc' = IF r.val THEN "get_state" ELSE "asr"
        /\ passTurns' = IF r.val THEN flagTurns ELSE {}
        /\ obs' = IF r.val THEN <<>> ELSE obs
    /\ flagTurns' = {}
    /\ iterBarged' = FALSE
    /\ iterDispatched' = FALSE
    /\ UNCHANGED <<state, stop_event, stop_llm_event, stop_tts_event, asr_text_q,
                   llm_in_q, llm_out_q, tts_text_q, full_response, sentence_buffer,
                   user_text, tok, llmVars, ttsVars, playVars, nTurns, nTriggers,
                   nTokens, bargedTurns>>

\* state = shared.get_state(); if state in (THINKING, SPEAKING):
MainGetState ==
    /\ UNCHANGED notTurnVars
    /\ main_pc = "get_state"
    /\ IF state \in {THINKING, SPEAKING}
       THEN /\ main_pc' = "set_llm"
            /\ iterBarged' = TRUE
            /\ UNCHANGED <<passTurns, bargedTurns>>
       ELSE /\ main_pc' = "asr"
            /\ bargedTurns' = bargedTurns \cup passTurns
            /\ passTurns' = {}
            /\ UNCHANGED iterBarged
    /\ UNCHANGED <<sharedVars, stop_llm_event, stop_tts_event, asr_text_q,
                   llm_in_q, llm_out_q, tts_text_q, full_response, sentence_buffer,
                   user_text, tok, llmVars, ttsVars, playVars, nTurns, nTriggers,
                   nTokens, obs, iterDispatched, flagTurns>>

\* stop_llm_event.set()
MainSetLlm ==
    /\ UNCHANGED <<notSegVars, segHist, superseded, synthCancelled, failedTurns,
                   played, lastTurn>>
    /\ cancelled' = IF "leak" \in watch THEN cancelled \cup 1..lastTurn ELSE cancelled
    /\ main_pc = "set_llm"
    /\ stop_llm_event' = TRUE
    /\ main_pc' = "set_tts"
    /\ UNCHANGED <<sharedVars, stop_tts_event, asr_text_q, llm_in_q, llm_out_q,
                   tts_text_q, full_response, sentence_buffer, user_text, tok,
                   llmVars, ttsVars, playVars, histVars>>

\* stop_tts_event.set(); full_response = ""; sentence_buffer = ""
MainSetTts ==
    /\ UNCHANGED <<notSegVars, superseded, failedTurns, played, cancelled, lastTurn>>
    /\ synthCancelled' = IF "synth" \in watch /\ tts_pc = "synth"
                          THEN TRUE ELSE synthCancelled
    /\ segIn' = <<>> /\ segOut' = <<>>
    /\ main_pc = "set_tts"
    /\ stop_tts_event' = TRUE
    /\ full_response' = NoText
    /\ sentence_buffer' = NoText
    /\ main_pc' = "drain_llm"
    /\ UNCHANGED <<sharedVars, stop_llm_event, asr_text_q, llm_in_q, llm_out_q,
                   tts_text_q, user_text, tok, llmVars, ttsVars, playVars, histVars>>

\* while True: llm_out_q.get_nowait()
MainDrainLlm ==
    /\ UNCHANGED notTurnVars
    /\ main_pc = "drain_llm"
    /\ llm_out_q' = <<>>
    /\ main_pc' = "drain_tts"
    /\ UNCHANGED <<sharedVars, stop_llm_event, stop_tts_event, asr_text_q, llm_in_q,
                   tts_text_q, full_response, sentence_buffer, user_text, tok,
                   llmVars, ttsVars, playVars, histVars>>

\* while True: tts_text_q.get_nowait()
MainDrainTts ==
    /\ UNCHANGED notTurnVars
    /\ main_pc = "drain_tts"
    /\ tts_text_q' = <<>>
    /\ main_pc' = "set_listening"
    /\ UNCHANGED <<sharedVars, stop_llm_event, stop_tts_event, asr_text_q, llm_in_q,
                   llm_out_q, full_response, sentence_buffer, user_text, tok,
                   llmVars, ttsVars, playVars, histVars>>

\* shared.set_state(BotState.LISTENING, reason="VAD barge-in")
MainSetListening ==
    /\ UNCHANGED notTurnVars
    /\ main_pc = "set_listening"
    /\ state' = LISTENING
    /\ obs' = ObsAfter(LISTENING)
    /\ main_pc' = "asr"
    /\ bargedTurns' = bargedTurns \cup passTurns
    /\ passTurns' = {}
    /\ UNCHANGED <<barge_in, stop_event, stop_llm_event, stop_tts_event, asr_text_q,
                   llm_in_q, llm_out_q, tts_text_q, full_response, sentence_buffer,
                   user_text, tok, llmVars, ttsVars, playVars, nTurns, nTriggers,
                   nTokens, iterBarged, iterDispatched, flagTurns>>

\* user_text = asr_text_q.get_nowait(); full_response = ""; sentence_buffer = ""
MainAsrGet ==
    /\ UNCHANGED <<notSegVars, synthCancelled, failedTurns, played, cancelled>>
    /\ main_pc = "asr"
    /\ IF asr_text_q = <<>>
       THEN /\ main_pc' = "tokens"
            /\ UNCHANGED <<asr_text_q, user_text, full_response, sentence_buffer,
                           segHist, superseded, lastTurn>>
       ELSE /\ user_text' = Head(asr_text_q)
            /\ lastTurn' = IF "leak" \in watch THEN Head(asr_text_q) ELSE lastTurn
            /\ segIn' = <<>> /\ segOut' = <<>>
            \* transcripts are numbered as they are put and each one taken is
            \* dispatched: the dispatch before that of turn k is that of k - 1
            /\ superseded' = IF "pass" \in watch /\ iterDispatched
                              THEN superseded \cup {Head(asr_text_q) - 1}
                              ELSE superseded
            /\ asr_text_q' = Tail(asr_text_q)
            /\ full_response' = NoText
            /\ sentence_buffer' = NoText
            /\ main_pc' = "clr_llm"
    /\ UNCHANGED <<sharedVars, stop_llm_event, stop_tts_event, llm_in_q, llm_out_q,
                   tts_text_q, tok, llmVars, ttsVars, playVars, histVars>>

\* stop_llm_event.clear()
MainClrLlm ==
    /\ UNCHANGED notTurnVars
    /\ main_pc = "clr_llm"
    /\ stop_llm_event' = FALSE
    /\ main_pc' = "clr_tts"
    /\ UNCHANGED <<sharedVars, stop_tts_event, asr_text_q, llm_in_q, llm_out_q,
                   tts_text_q, full_response, sentence_buffer, user_text, tok,
                   llmVars, ttsVars, playVars, histVars>>

\* stop_tts_event.clear()
MainClrTts ==
    /\ UNCHANGED notTurnVars
    /\ main_pc = "clr_tts"
    /\ stop_tts_event' = FALSE
    /\ main_pc' = "set_thinking"
    /\ UNCHANGED <<sharedVars, stop_llm_event, asr_text_q, llm_in_q, llm_out_q,
                   tts_text_q, full_response, sentence_buffer, user_text, tok,
                   llmVars, ttsVars, playVars, histVars>>

\* shared.set_state(BotState.THINKING, reason="Final ASR transcript")
MainSetThinking ==
    /\ UNCHANGED notTurnVars
    /\ main_pc = "set_thinking"
    /\ state' = THINKING
    /\ obs' = IF state = LISTENING /\ ~barge_in /\ user_text = 1
              THEN <<LISTENING, THINKING>> ELSE <<>>
    /\ iterDispatched' = TRUE
    /\ main_pc' = "put_llm"
    /\ UNCHANGED <<barge_in, stop_event, stop_llm_event, stop_tts_event, asr_text_q,
                   llm_in_q, llm_out_q, tts_text_q, full_response, sentence_buffer,
                   user_text, tok, llmVars, ttsVars, playVars, nTurns, nTriggers,
                   nTokens, iterBarged, flagTurns, passTurns, bargedTurns>>

\* llm_in_q.put(user_text): waits while the queue is full
MainPutLlm ==
    /\ UNCHANGED notTurnVars
    /\ main_pc = "put_llm"
    /\ Len(llm_in_q) < QueueCap
    /\ llm_in_q' = Append(llm_in_q, user_text)
    /\ user_text' = 0
    /\ main_pc' = "asr"
    /\ UNCHANGED <<sharedVars, stop_llm_event, stop_tts_event, asr_text_q, llm_out_q,
                   tts_text_q, full_response, sentence_buffer, tok,
                   llmVars, ttsVars, playVars, histVars>>

\* tok = llm_out_q.get_nowait() and the handling of the token up to the next
\* queue operation.  The text a tts_text_q.put will send is kept in tok until
\* the put is done.
MainTokGet ==
    /\ UNCHANGED <<notSegVars, notes, segOut>>
    /\ main_pc = "tokens"
    /\ IF llm_out_q = <<>>
       THEN \* except queue.Empty: pass; time.sleep(0.01): the iteration is over
            /\ main_pc' = "consume"
            /\ UNCHANGED <<llm_out_q, tok, full_response, sentence_buffer, segIn>>
       ELSE LET t == Head(llm_out_q) IN
            /\ llm_out_q' = Tail(llm_out_q)
            /\ segIn' = IF "seg" \in watch THEN Append(segIn, t.text) ELSE segIn
            /\ IF t.text = LLM_END
               THEN \* leftover = sentence_buffer.strip(); if leftover: put
                    IF Strip(sentence_buffer) # <<>>
                    THEN /\ tok' = t
                         /\ main_pc' = "put_final"
                         /\ UNCHANGED <<full_response, sentence_buffer>>
                    ELSE /\ full_response' = NoText
                         /\ sentence_buffer' = NoText
                         /\ tok' = NoItem
                         /\ main_pc' = "tokens"
               ELSE \* full_response += tok; sentence_buffer += tok
                    /\ full_response' = full_response \o t.text
                    /\ IF HasTerminal(t.text)
                       THEN IF Strip(sentence_buffer \o t.text) # <<>>
                            THEN /\ sentence_buffer' = sentence_buffer \o t.text
                                 /\ tok' = t
                                 /\ main_pc' = "put_sentence"
                            ELSE /\ sentence_buffer' = NoText
                                 /\ tok' = NoItem
                                 /\ main_pc' = "tokens"
                       ELSE /\ sentence_buffer' = sentence_buffer \o t.text
                            /\ tok' = NoItem
                            /\ main_pc' = "tokens"
    /\ UNCHANGED <<sharedVars, stop_llm_event, stop_tts_event, asr_text_q, llm_in_q,
                   tts_text_q, user_text, llmVars, ttsVars, playVars, histVars>>

\* tts_text_q.put(leftover); full_response = ""; sentence_buffer = ""
MainPutFinal ==
    /\ UNCHANGED <<notSegVars, notes, segIn>>
    /\ segOut' = IF "seg" \in watch THEN Append(segOut, Strip(sentence_buffer))
                                    ELSE segOut
    /\ main_pc = "put_final"
    /\ Len(tts_text_q) < QueueCap
    /\ tts_text_q' = Append(tts_text_q, [turn |-> tok.turn, text |-> Strip(sentence_buffer)])
    /\ full_response' = NoText
    /\ sentence_buffer' = NoText
    /\ tok' = NoItem
    /\ main_pc' = "tokens"
    /\ UNCHANGED <<sharedVars, stop_llm_event, stop_tts_event, asr_text_q, llm_in_q,
                   llm_out_q, user_text, llmVars, ttsVars, playVars, histVars>>

\* tts_text_q.put(sentence); sentence_buffer = ""
MainPutSentence ==
    /\ UNCHANGED <<notSegVars, notes, segIn>>
    /\ segOut' = IF "seg" \in watch THEN Append(segOut, Strip(sentence_buffer))
                                    ELSE segOut
    /\ main_pc = "put_sentence"
    /\ Len(tts_text_q) < QueueCap
    /\ tts_text_q' = Append(tts_text_q, [turn |-> tok.turn, text |-> Strip(sentence_buffer)])
    /\ sentence_buffer' = NoText
    /\ tok' = NoItem
    /\ main_pc' = "tokens"
    /\ UNCHANGED <<sharedVars, stop_llm_event, stop_tts_event, asr_text_q, llm_in_q,
                   llm_out_q, full_response, user_text, llmVars, ttsVars, playVars,
                   histVars>>

\* except KeyboardInterrupt: shared.stop_event.set()
Shutdown ==
    /\ UNCHANGED notTurnVars
    /\ main_pc \notin {"start", "done"}
    /\ stop_event' = TRUE
    /\ main_pc' = "done"
    /\ UNCHANGED <<state, barge_in, stop_llm_event, stop_tts_event, asr_text_q,
                   llm_in_q, llm_out_q, tts_text_q, full_response, sentence_buffer,
                   user_text, tok, llmVars, ttsVars, playVars, histVars>>

MainStep ==
    \/ MainStart \/ MainConsume \/ MainGetState \/ MainSetLlm \/ MainSetTts
    \/ MainDrainLlm \/ MainDrainTts \/ MainSetListening \/ MainAsrGet
    \/ MainClrLlm \/ MainClrTts \/ MainSetThinking \/ MainPutLlm
    \/ MainTokGet \/ MainPutFinal \/ MainPutSentence

\* ------------------------------------------------------- LLMWorker._run
\* while not stop_event: user_text = llm_in_q.get(timeout=0.1)
LlmGet ==
    /\ UNCHANGED notTurnVars
    /\ llm_pc = "get"
    /\ ~stop_event
    /\ llm_in_q # <<>>
    /\ llm_req' = Head(llm_in_q)
    /\ llm_in_q' = Tail(llm_in_q)
    /\ llm_pc' = "clear"
    /\ UNCHANGED <<sharedVars, stop_llm_event, stop_tts_event, asr_text_q, llm_out_q,
                   tts_text_q, full_response, sentence_buffer, main_pc, user_text, tok,
                   llm_token, alphabet, ttsVars, playVars, histVars>>

LlmExit ==
    /\ UNCHANGED notTurnVars
    /\ llm_pc = "get"
    /\ stop_event
    /\ llm_pc' = "done"
    /\ UNCHANGED <<sharedVars, mainVars, llm_req, llm_token, alphabet, ttsVars,
                   playVars, histVars>>

\* self.stop_llm_event.clear(); stream = self.llm(prompt, ..., stream=True)
LlmClear ==
    /\ UNCHANGED notTurnVars
    /\ llm_pc = "clear"
    /\ stop_llm_event' = FALSE
    /\ llm_pc' = "stream"
    /\ UNCHANGED <<sharedVars, stop_tts_event, asr_text_q, llm_in_q, llm_out_q,
                   tts_text_q, full_response, sentence_buffer, main_pc, user_text, tok,
                   llm_req, llm_token, alphabet, ttsVars, playVars, histVars>>

\* for chunk in stream: the stream yields a fragment and the worker looks at
\* the cancel signals (break), or the stream ends, or the call raises.
LlmChunk ==
    /\ UNCHANGED <<notSegVars, segHist, superseded, synthCancelled, played,
                   cancelled, lastTurn>>
    /\ llm_pc = "stream"
    /\ \/ /\ nTokens < MaxTokens
          /\ IF stop_llm_event \/ stop_event
             THEN /\ llm_pc' = "put_end"
                  /\ UNCHANGED <<llm_token, nTokens>>
             ELSE /\ \E t \in alphabet : llm_token' = t
                  /\ nTokens' = nTokens + 1
                  /\ llm_pc' = "put_tok"
          /\ UNCHANGED <<llm_req, failedTurns>>
       \/ \* the stream is exhausted
          /\ llm_pc' = "put_end"
          /\ UNCHANGED <<llm_req, llm_token, nTokens, failedTurns>>
       \/ \* except Exception: continue
          /\ llm_pc' = "get"
          /\ llm_req' = 0
          /\ failedTurns' = IF "fail" \in watch THEN failedTurns \cup {llm_req}
                             ELSE failedTurns
          /\ UNCHANGED <<llm_token, nTokens>>
    /\ UNCHANGED <<sharedVars, mainVars, alphabet, ttsVars, playVars, nTurns,
                   nTriggers, obs, iterBarged, iterDispatched, flagTurns, passTurns,
                   bargedTurns>>

\* self.llm_out_q.put(token): waits while the queue is full
LlmPutTok ==
    /\ UNCHANGED notTurnVars
    /\ llm_pc = "put_tok"
    /\ Len(llm_out_q) < QueueCap
    /\ llm_out_q' = Append(llm_out_q, [turn |-> llm_req, text |-> llm_token])
    /\ llm_token' = NoText
    /\ llm_pc' = "stream"
    /\ UNCHANGED <<sharedVars, stop_llm_event, stop_tts_event, asr_text_q, llm_in_q,
                   tts_text_q, full_response, sentence_buffer, main_pc, user_text, tok,
                   llm_req, alphabet, ttsVars, playVars, histVars>>

\* self.llm_out_q.put("[LLM_END]")
LlmPutEnd ==
    /\ UNCHANGED notTurnVars
    /\ llm_pc = "put_end"
    /\ Len(llm_out_q) < QueueCap
    /\ llm_out_q' = Append(llm_out_q, [turn |-> llm_req, text |-> LLM_END])
    /\ llm_req' = 0
    /\ llm_pc' = "get"
    /\ UNCHANGED <<sharedVars, stop_llm_event, stop_tts_event, asr_text_q, llm_in_q,
                   tts_text_q, full_response, sentence_buffer, main_pc, user_text, tok,
                   llm_token, alphabet, ttsVars, playVars, histVars>>

LlmStep == LlmGet \/ LlmClear \/ LlmChunk \/ LlmPutTok \/ LlmPutEnd

\* --------------------------------------------------- PiperTTSWorker.run
\* while not stop_event: text = self.tts_text_q.get(timeout=0.1)
TtsGet ==
    /\ UNCHANGED <<notSegVars, segHist, superseded, failedTurns, played,
                   cancelled, lastTurn>>
    /\ synthCancelled' = FALSE
    /\ tts_pc = "get"
    /\ ~stop_event
    /\ tts_text_q # <<>>
    /\ tts_text' = Head(tts_text_q)
    /\ tts_text_q' = Tail(tts_text_q)
    /\ tts_pc' = "synth"
    /\ UNCHANGED <<sharedVars, stop_llm_event, stop_tts_event, asr_text_q, llm_in_q,
                   llm_out_q, full_response, sentence_buffer, main_pc, user_text, tok,
                   llmVars, wav_path, playVars, histVars>>

TtsExit ==
    /\ UNCHANGED notTurnVars
    /\ tts_pc = "get"
    /\ stop_event
    /\ tts_pc' = "done"
    /\ UNCHANGED <<sharedVars, mainVars, llmVars, tts_text, wav_path, playVars,
                   histVars>>

\* wav_path = self._synthesize_with_piper(text) returns; then
\* if self.stop_tts_event.is_set() or self.shared.stop_event.is_set(): continue
TtsSynth ==
    /\ UNCHANGED notTurnVars
    /\ tts_pc = "synth"
    /\ \/ \* Piper failed (None) or the call raised
          /\ tts_pc' = "get"
          /\ UNCHANGED wav_path
       \/ IF stop_tts_event \/ stop_event
          THEN /\ tts_pc' = "get"
               /\ UNCHANGED wav_path
          ELSE /\ wav_path' = tts_text
               /\ tts_pc' = "put"
    /\ tts_text' = NoItem
    /\ UNCHANGED <<sharedVars, mainVars, llmVars, playVars, histVars>>

\* Capacity of the handoff queue play_q.
PlayCap == 2

\* A handoff that puts the new clip in front of the clips that wait.
TtsPut_Mutant ==
    /\ UNCHANGED notTurnVars
    /\ tts_pc = "put"
    /\ play_q' = IF Len(play_q) < PlayCap THEN <<wav_path>> \o play_q ELSE play_q
    /\ wav_path' = NoItem
    /\ tts_pc' = "get"
    /\ UNCHANGED <<sharedVars, mainVars, llmVars, tts_text, play_pc, play_wav,
                   histVars>>

\* self.play_q.put_nowait(wav_path); except queue.Full: drop
TtsPut ==
    /\ UNCHANGED notTurnVars
    /\ tts_pc = "put"
    /\ play_q' = IF Len(play_q) < PlayCap THEN Append(play_q, wav_path) ELSE play_q
    /\ wav_path' = NoItem
    /\ tts_pc' = "get"
    /\ UNCHANGED <<sharedVars, mainVars, llmVars, tts_text, play_pc, play_wav,
                   histVars>>

TtsStep == TtsGet \/ TtsSynth \/ TtsPut

\* --------------------------------------------- PiperTTSWorker._play_loop
\* while not stop_event: wav_path = self.play_q.get(timeout=0.1)
PlayGet ==
    /\ UNCHANGED notTurnVars
    /\ play_pc = "get"
    /\ ~stop_event
    /\ play_q # <<>>
    /\ play_wav' = Head(play_q)
    /\ play_q' = Tail(play_q)
    /\ play_pc' = "check"
    /\ UNCHANGED <<sharedVars, mainVars, llmVars, ttsVars, histVars>>

PlayExit ==
    /\ UNCHANGED notTurnVars
    /\ play_pc = "get"
    /\ stop_event
    /\ play_pc' = "done"
    /\ UNCHANGED <<sharedVars, mainVars, llmVars, ttsVars, play_q, play_wav, histVars>>

\* if self.stop_tts_event.is_set(): self._drain_play_queue(); continue
PlayCheck ==
    /\ UNCHANGED notTurnVars
    /\ play_pc = "check"
    /\ IF stop_tts_event
       THEN /\ play_q' = <<>>
            /\ play_wav' = NoItem
            /\ play_pc' = "get"
       ELSE /\ play_pc' = "open"
            /\ UNCHANGED <<play_q, play_wav>>
    /\ UNCHANGED <<sharedVars, mainVars, llmVars, ttsVars, histVars>>

\* with wave.open(wav_path, "rb") as wf: ...; self.shared.mark_tts_start()
PlayOpen ==
    /\ UNCHANGED notTurnVars
    /\ play_pc = "open"
    /\ \/ \* except Exception: continue
          /\ play_pc' = "get"
          /\ play_wav' = NoItem
       \/ /\ play_pc' = "get_state"
          /\ UNCHANGED play_wav
    /\ UNCHANGED <<sharedVars, mainVars, llmVars, ttsVars, play_q, histVars>>

\* if self.shared.get_state() != BotState.SPEAKING:
PlayGetState ==
    /\ UNCHANGED <<notSegVars, segHist, superseded, synthCancelled, failedTurns,
                   cancelled, lastTurn>>
    /\ played' = IF "clips" \in watch /\ state = SPEAKING THEN Append(played, play_wav)
                  ELSE played
    /\ play_pc = "get_state"
    /\ play_pc' = IF state # SPEAKING THEN "set_speaking" ELSE "playing"
    /\ UNCHANGED <<sharedVars, mainVars, llmVars, ttsVars, play_q, play_wav, histVars>>

\* self.shared.set_state(BotState.SPEAKING, ...); play_obj = wave_obj.play()
PlaySetSpeaking ==
    /\ UNCHANGED <<notSegVars, segHist, superseded, synthCancelled, failedTurns,
                   cancelled, lastTurn>>
    /\ played' = IF "clips" \in watch THEN Append(played, play_wav)
                  ELSE played
    /\ play_pc = "set_speaking"
    /\ state' = SPEAKING
    /\ obs' = ObsAfter(SPEAKING)
    /\ play_pc' = "playing"
    /\ UNCHANGED <<barge_in, stop_event, mainVars, llmVars, ttsVars, play_q, play_wav,
                   nTurns, nTriggers, nTokens, iterBarged, iterDispatched, flagTurns,
                   passTurns, bargedTurns>>

\* while play_obj.is_playing(): the clip ends
PlayFinished ==
    /\ UNCHANGED notTurnVars
    /\ play_pc = "playing"
    /\ play_pc' = "post"
    /\ play_wav' = NoItem
    /\ UNCHANGED <<sharedVars, mainVars, llmVars, ttsVars, play_q, histVars>>

\* if stop_tts_event.is_set() or stop_event.is_set(): play_obj.stop(); break
PlayPoll ==
    /\ UNCHANGED notTurnVars
    /\ play_pc = "playing"
    /\ stop_tts_event \/ stop_event
    /\ play_pc' = "post"
    /\ play_wav' = NoItem
    /\ UNCHANGED <<sharedVars, mainVars, llmVars, ttsVars, play_q, histVars>>

\* if self.stop_tts_event.is_set(): self._drain_play_queue(); continue
PlayPost ==
    /\ UNCHANGED notTurnVars
    /\ play_pc = "post"
    /\ IF stop_tts_event
       THEN /\ play_q' = <<>>
            /\ play_pc' = "get"
       ELSE /\ play_pc' = "empty_play"
            /\ UNCHANGED play_q
    /\ UNCHANGED <<sharedVars, mainVars, llmVars, ttsVars, play_wav, histVars>>

\* if self.play_q.empty() and ...
PlayEmptyPlay ==
    /\ UNCHANGED notTurnVars
    /\ play_pc = "empty_play"
    /\ play_pc' = IF play_q = <<>> THEN "empty_tts" ELSE "get"
    /\ UNCHANGED <<sharedVars, mainVars, llmVars, ttsVars, play_q, play_wav, histVars>>

\* ... and self.tts_text_q.empty():
PlayEmptyTts ==
    /\ UNCHANGED notTurnVars
    /\ play_pc = "empty_tts"
    /\ play_pc' = IF tts_text_q = <<>> THEN "set_listening" ELSE "get"
    /\ UNCHANGED <<sharedVars, mainVars, llmVars, ttsVars, play_q, play_wav, histVars>>

\* self.shared.set_state(BotState.LISTENING, reason="TTS finished or stopped")
PlaySetListening ==
    /\ UNCHANGED notTurnVars
    /\ play_pc = "set_listening"
    /\ state' = LISTENING
    /\ obs' = ObsAfter(LISTENING)
    /\ play_pc' = "get"
    /\ UNCHANGED <<barge_in, stop_event, mainVars, llmVars, ttsVars, play_q, play_wav,
                   nTurns, nTriggers, nTokens, iterBarged, iterDispatched, flagTurns,
                   passTurns, bargedTurns>>

PlayStep ==
    \/ PlayGet \/ PlayCheck \/ PlayOpen \/ PlayGetState \/ PlaySetSpeaking
    \/ PlayFinished \/ PlayPoll \/ PlayPost \/ PlayEmptyPlay \/ PlayEmptyTts
    \/ PlaySetListening

\* ------------------------------------- the VAD and the recognizer, as seen
\* VADWorker._run on voice_started: self.shared.trigger_barge_in()
VadTrigger ==
    /\ UNCHANGED notTurnVars
    /\ ~stop_event
    /\ nTriggers < MaxTriggers
    /\ nTriggers' = nTriggers + 1
    /\ barge_in' = trigger_barge_in(barge_in)
    /\ flagTurns' = flagTurns \cup InFlight
    /\ obs' = <<>>
    /\ UNCHANGED <<state, stop_event, mainVars, llmVars, ttsVars, playVars, nTurns,
                   nTokens, iterBarged, iterDispatched, passTurns, bargedTurns>>

\* WhisperASRWorker._transcribe_and_emit: self.asr_text_q.put(transcript).
\* A transcript is the recognition of an utterance, and the VAD has called
\* trigger_barge_in at the voice_started of every utterance.
AsrTranscript ==
    /\ UNCHANGED notTurnVars
    /\ ~stop_event
    /\ nTurns < MaxTurns
    /\ nTurns < nTriggers
    /\ Len(asr_text_q) < QueueCap
    /\ nTurns' = nTurns + 1
    /\ asr_text_q' = Append(asr_text_q, nTurns + 1)
    /\ UNCHANGED <<sharedVars, stop_llm_event, stop_tts_event, llm_in_q, llm_out_q,
                   tts_text_q, full_response, sentence_buffer, main_pc, user_text, tok,
                   llmVars, ttsVars, playVars, nTriggers, nTokens, obs, iterBarged,
                   iterDispatched, flagTurns, passTurns, bargedTurns>>

Next ==
    \/ MainStep \/ LlmStep \/ TtsStep \/ PlayStep
    \/ VadTrigger \/ AsrTranscript

Spec == Init /\ [][Next]_vars

\* ------------------------------------------------------ claims about Spec
IsPrefix(a, b) == Len(a) <= Len(b) /\ SubSeq(b, 1, Len(a)) = a

TurnSequence == <<LISTENING, THINKING, SPEAKING, LISTENING>>

\* C1: in a turn with no barge-in (the first transcript of the run, dispatched
\* from LISTENING with no flag pending and no trigger_barge_in afterwards, so
\* that nothing of a cancelled turn is in the pipeline), the distinct BotState
\* values observed since just before the dispatch are LISTENING, THINKING,
\* SPEAKING, LISTENING in this order and nothing after them: the state never
\* re-enters SPEAKING once it has gone back to LISTENING.
C1_TurnSequence == IsPrefix(obs, TurnSequence)

\* C2: at the end of an orchestrator iteration that consumed a true barge-in
\* flag in THINKING or SPEAKING, BotState is LISTENING and both turn
\* accumulators are empty.  Stated for the iterations that dispatch no
\* transcript, where nothing but the barge-in pass is meant to write either.
C2_BargeInLeavesListening ==
    (main_pc = "consume" /\ iterBarged /\ ~iterDispatched)
        => (state = LISTENING /\ full_response = NoText /\ sentence_buffer = NoText)

\* C3: a barge-in flag set while a reply is in flight cancels that reply: once
\* the barge-in pass that consumed the flag is over, a clip of a turn that was
\* in flight when the flag was set starts playback only with the
\* synthesis-cancel signal raised (the first poll of the playback loop then
\* stops it).
C3_BargeInStopsReply ==
    [][(play_pc # "playing" /\ play_pc' = "playing" /\ play_wav'.turn \in bargedTurns)
          => stop_tts_event]_vars

\* C5: a raised generation-cancel or synthesis-cancel signal is cleared by
\* the orchestrator's transcript pass and by no other step.
C5_CancelLevelTriggered ==
    [][/\ (stop_llm_event /\ ~stop_llm_event') => main_pc = "clr_llm"
       /\ (stop_tts_event /\ ~stop_tts_event') => main_pc = "clr_tts"]_vars

\* C6: every change of BotState is a transition of the table: IDLE to
\* LISTENING at startup, LISTENING to THINKING on dispatch, THINKING to
\* SPEAKING when playback begins, SPEAKING to LISTENING when playback
\* completes, THINKING or SPEAKING to LISTENING by the barge-in pass.
C6_TransitionTable ==
    [][state' # state =>
        \/ state = IDLE /\ state' = LISTENING /\ main_pc = "start"
        \/ state = LISTENING /\ state' = THINKING /\ main_pc = "set_thinking"
        \/ state = THINKING /\ state' = SPEAKING /\ play_pc = "set_speaking"
        \/ state = SPEAKING /\ state' = LISTENING /\ play_pc = "set_listening"
        \/ state \in {THINKING, SPEAKING} /\ state' = LISTENING
              /\ main_pc = "set_listening"]_vars

\* The barge-in pass has set stop_tts_event and LISTENING, and the transcript
\* pass has not cleared stop_tts_event since.
BargeWindow ==
    stop_tts_event /\ main_pc \notin {"drain_llm", "drain_tts", "set_listening"}

\* The playback thread does one of its two set_state calls.
PlaybackWrites ==
    \/ play_pc = "set_speaking" /\ play_pc' = "playing"
    \/ play_pc = "set_listening" /\ play_pc' = "get"

BargedWrite == BargeWindow /\ PlaybackWrites

\* C15: from the barge-in pass having set stop_tts_event and LISTENING until
\* stop_tts_event is cleared for the next turn, the playback thread writes no
\* BotState, neither SPEAKING nor LISTENING.
C15_PlaybackKeepsOut == [][~BargedWrite]_vars

\* ------------------------------------- SharedState: the barge-in flag
\* trigger_barge_in calls let through between two consume_barge_in calls.
MaxPending == 2

\* C4 mutant: the mutex admits a thread while the other is inside.
LockFree_Mutant(holder) == TRUE

\* The holder SharedState._lock must have for `with self._lock` to be entered.
LockFree(holder) == holder = "none"

\* Everything but the flag and the threads inside its two methods.
allButFlag == <<state, stop_event, mainVars, llmVars, ttsVars, playVars, histVars,
                 segHist, notes, watch,
                 audioVars, cbVars, vadVars, vadHist, asrVars, asrHist>>

\* trigger_barge_in: `with self._lock` entered by the VAD thread.
TrigAcquire ==
    /\ trig_pc = "idle" /\ LockFree(lock) /\ trigSince < MaxPending
    /\ lock' = "vad" /\ trig_pc' = "set"
    /\ UNCHANGED <<barge_in, cons_pc, val, trigSince, trigSeen, trigPrev, allButFlag>>

\* trigger_barge_in: self.barge_in = True.
TrigSet ==
    /\ trig_pc = "set"
    /\ barge_in' = trigger_barge_in(barge_in)
    /\ trigSince' = trigSince + 1
    /\ trig_pc' = "release"
    /\ UNCHANGED <<lock, cons_pc, val, trigSeen, trigPrev, allButFlag>>

\* trigger_barge_in: the with block is left.
TrigRelease ==
    /\ trig_pc = "release"
    /\ lock' = "none" /\ trig_pc' = "idle"
    /\ UNCHANGED <<barge_in, cons_pc, val, trigSince, trigSeen, trigPrev, allButFlag>>

\* consume_barge_in: `with self._lock` entered by the orchestrator.
ConsAcquire ==
    /\ cons_pc = "idle" /\ LockFree(lock)
    /\ lock' = "main" /\ cons_pc' = "read"
    /\ UNCHANGED <<barge_in, trig_pc, val, trigSince, trigSeen, trigPrev, allButFlag>>

\* consume_barge_in: val = self.barge_in.
ConsRead ==
    /\ cons_pc = "read"
    /\ val' = consume_barge_in(barge_in).val
    /\ trigPrev' = trigSeen /\ trigSeen' = trigSince /\ trigSince' = 0
    /\ cons_pc' = "write"
    /\ UNCHANGED <<barge_in, lock, trig_pc, allButFlag>>

\* consume_barge_in: self.barge_in = False.
ConsWrite ==
    /\ cons_pc = "write"
    /\ barge_in' = consume_barge_in(barge_in).flag
    /\ cons_pc' = "release"
    /\ UNCHANGED <<lock, trig_pc, val, trigSince, trigSeen, trigPrev, allButFlag>>

\* consume_barge_in: the with block is left.
ConsRelease ==
    /\ cons_pc = "release"
    /\ lock' = "none" /\ cons_pc' = "return"
    /\ UNCHANGED <<barge_in, trig_pc, val, trigSince, trigSeen, trigPrev, allButFlag>>

\* consume_barge_in: return val.
ConsReturn ==
    /\ cons_pc = "return"
    /\ cons_pc' = "idle"
    /\ UNCHANGED <<barge_in, lock, trig_pc, val, trigSince, trigSeen, trigPrev, allButFlag>>

NextFlag ==
    \/ TrigAcquire \/ TrigSet \/ TrigRelease
    \/ ConsAcquire \/ ConsRead \/ ConsWrite \/ ConsRelease \/ ConsReturn

SpecFlag == Init /\ [][NextFlag]_vars

\* C4: the barge-in flag is a single slot. A consume_barge_in returns true
\* exactly when at least one trigger_barge_in came since the previous consume,
\* however many came, and it leaves the flag false: whenever neither thread
\* is inside the mutex, the flag is set exactly when a trigger has come since
\* the last consume.
C4_FlagSingleSlot ==
    /\ cons_pc \in {"write", "release", "return"} => (val <=> trigSeen > 0)
    /\ (trig_pc # "release" /\ cons_pc \notin {"write", "release"})
           => (barge_in <=> trigSince > 0)

\* C4 witness: a consume that followed two triggers returned true once, and
\* the next consume, with no trigger in between, returns false.
C4_Witness ==
    cons_pc = "return" /\ ~val /\ trigSeen = 0 /\ trigPrev >= 2

\* ----------------------------------------------------- VADWorker._run
\* Frames the capture callback delivers in one run.
MaxFrames == 4
\* Last tick of the clock; the clock stays there.
MaxTime == 13
\* Capacity of audio_q_vad and audio_q_asr.
AudioCap == 2
\* Capacity of vad_events_q.
EventCap == 2
\* calibration_frames: frames the calibration collects.
CalFrames == 2

\* baseline = 1e-7
FallbackBaseline == 2
\* threshold_factor
ThresholdFactor == 8
\* min_speech_ms, silence_ms, and the two read timeouts, in ticks.
MinSpeechTicks == 2
SilenceTicks == 8
CalPollTicks == 10
DetPollTicks == 1

\* The clock d ticks after t.
After(t, d) == IF t + d > MaxTime THEN MaxTime ELSE t + d

\* np.median of a non-empty list.
Median(es) ==
    LET s == SortSeq(es, LAMBDA a, b : a < b)
        n == Len(s)
    IN  IF n % 2 = 1 THEN s[(n + 1) \div 2] ELSE (s[n \div 2] + s[n \div 2 + 1]) \div 2

\* baseline and energy_threshold, from what the calibration collected.
Baseline(es) == IF es = <<>> THEN FallbackBaseline ELSE Median(es)
Threshold(es) == Baseline(es) * ThresholdFactor

\* C22 mutant: the second loud frame promotes, whatever time has passed.
SpeechConfirmed_Mutant(start, t) == TRUE

\* time.time() - speech_start_time >= min_speech_s
SpeechConfirmed(start, t) == t - start >= MinSpeechTicks

\* C24 mutant: any time at all since the last loud frame is enough.
SilenceElapsed_Mutant(last, t) == t - last > 0

\* time.time() - last_voice_time > silence_s
SilenceElapsed(last, t) == t - last > SilenceTicks

\* C8 mutant: a full queue makes room by dropping its oldest frame.
PutNowait_Mutant(q, x, cap) ==
    IF Len(q) < cap THEN Append(q, x) ELSE Append(Tail(q), x)

\* queue.Queue.put_nowait on a queue of capacity cap: queue.Full is swallowed.
PutNowait(q, x, cap) == IF Len(q) < cap THEN Append(q, x) ELSE q

CalPcs == {"cal_test", "cal_get"}
DetPcs == {"det_test", "det_get", "put_started", "trigger", "put_ended"}

vadRest == <<turnVars, flagVars, cbVars, audio_q_asr, asrVars, asrHist>>
allButFlag_noVad == <<state, stop_event, mainVars, llmVars, ttsVars, playVars, histVars,
                 segHist, notes, watch,
                      flagVars, cbVars, asrVars, asrHist>>

\* while not stop_event.is_set() and len(baseline_energies) < calibration_frames;
\* after the loop, the threshold and the locals of phase 2.
VadCalTest ==
    /\ vad_pc = "cal_test"
    /\ IF stop_event \/ Len(baseline_energies) >= CalFrames
       THEN /\ energy_threshold' = Threshold(baseline_energies)
            /\ vad_pc' = "det_test"
       ELSE /\ vad_pc' = "cal_get"
            /\ UNCHANGED energy_threshold
    /\ UNCHANGED <<baseline_energies, is_speaking, speech_start_time, last_voice_time,
                   now, audio_q_vad, vad_events_q, nFrames, vadRest, vadHist>>

\* frame = audio_q.get(timeout=1.0); baseline_energies.append(energy)
VadCalGet ==
    /\ vad_pc = "cal_get" /\ audio_q_vad # <<>>
    /\ audio_q_vad' = Tail(audio_q_vad)
    /\ baseline_energies' = Append(baseline_energies, Head(audio_q_vad).energy)
    /\ vad_pc' = "cal_test"
    /\ UNCHANGED <<energy_threshold, is_speaking, speech_start_time, last_voice_time,
                   now, vad_events_q, nFrames, vadRest, vadHist>>

\* except queue.Empty: continue, one second later
VadCalTimeout ==
    /\ vad_pc = "cal_get" /\ audio_q_vad = <<>>
    /\ now' = After(now, CalPollTicks)
    /\ vad_pc' = "cal_test"
    /\ UNCHANGED <<baseline_energies, energy_threshold, is_speaking, speech_start_time,
                   last_voice_time, audio_q_vad, vad_events_q, nFrames, vadRest, vadHist>>

\* while not self.shared.stop_event.is_set()
VadDetTest ==
    /\ vad_pc = "det_test"
    /\ vad_pc' = IF stop_event THEN "stopped" ELSE "det_get"
    /\ UNCHANGED <<baseline_energies, energy_threshold, is_speaking, speech_start_time,
                   last_voice_time, now, audio_q_vad, vad_events_q, nFrames, vadRest, vadHist>>

\* frame = audio_q.get(timeout=0.1), and the branch the frame's energy takes,
\* up to the put of an event.
VadDetFrame ==
    /\ vad_pc = "det_get" /\ audio_q_vad # <<>>
    /\ audio_q_vad' = Tail(audio_q_vad)
    /\ LET energy == Head(audio_q_vad).energy IN
       quietSeen' =
           IF "vad" \notin watch THEN quietSeen
           ELSE IF energy > energy_threshold
                THEN (IF ~is_speaking /\ speech_start_time = None
                      THEN FALSE ELSE quietSeen)
                ELSE (IF is_speaking /\ last_voice_time # None
                      THEN quietSeen ELSE TRUE)
    /\ LET energy == Head(audio_q_vad).energy IN
       bursts' =
           IF "vad" \in watch /\ energy <= energy_threshold
              /\ ~(is_speaking /\ last_voice_time # None)
              /\ speech_start_time # None
           THEN bursts + 1 ELSE bursts
    /\ LET energy == Head(audio_q_vad).energy IN
       IF energy > energy_threshold
       THEN IF ~is_speaking
            THEN IF speech_start_time = None
                 THEN /\ speech_start_time' = now
                      /\ vad_pc' = "det_test"
                      /\ UNCHANGED <<is_speaking, last_voice_time>>
                 ELSE IF SpeechConfirmed(speech_start_time, now)
                      THEN /\ is_speaking' = TRUE
                           /\ last_voice_time' = now
                           /\ vad_pc' = "put_started"
                           /\ UNCHANGED speech_start_time
                      ELSE /\ vad_pc' = "det_test"
                           /\ UNCHANGED <<is_speaking, speech_start_time, last_voice_time>>
            ELSE /\ last_voice_time' = now
                 /\ vad_pc' = "det_test"
                 /\ UNCHANGED <<is_speaking, speech_start_time>>
       ELSE IF is_speaking /\ last_voice_time # None
            THEN /\ vad_pc' = IF SilenceElapsed(last_voice_time, now)
                              THEN "put_ended" ELSE "det_test"
                 /\ UNCHANGED <<is_speaking, speech_start_time, last_voice_time>>
            ELSE /\ speech_start_time' = None
                 /\ vad_pc' = "det_test"
                 /\ UNCHANGED <<is_speaking, last_voice_time>>
    /\ UNCHANGED <<baseline_energies, energy_threshold, now, vad_events_q, nFrames,
                   vadRest, emitted>>

\* except queue.Empty, a tenth of a second later: the trailing silence check.
VadDetTimeout ==
    /\ vad_pc = "det_get" /\ audio_q_vad = <<>>
    /\ now' = After(now, DetPollTicks)
    /\ vad_pc' = IF is_speaking /\ last_voice_time # None
                    /\ SilenceElapsed(last_voice_time, now')
                 THEN "put_ended" ELSE "det_test"
    /\ UNCHANGED <<baseline_energies, energy_threshold, is_speaking, speech_start_time,
                   last_voice_time, audio_q_vad, vad_events_q, nFrames, vadRest, vadHist>>

\* self.vad_events_q.put({"type": "voice_started", ...}), which waits for room
VadPutStarted ==
    /\ vad_pc = "put_started" /\ Len(vad_events_q) < EventCap
    /\ vad_events_q' = Append(vad_events_q, "voice_started")
    /\ emitted' = IF "vad" \in watch THEN Append(emitted, "voice_started")
                   ELSE emitted
    /\ vad_pc' = "trigger"
    /\ UNCHANGED <<baseline_energies, energy_threshold, is_speaking, speech_start_time,
                   last_voice_time, now, audio_q_vad, nFrames, vadRest, quietSeen, bursts>>

\* self.shared.trigger_barge_in()
VadSetFlag ==
    /\ vad_pc = "trigger"
    /\ barge_in' = trigger_barge_in(barge_in)
    /\ vad_pc' = "det_test"
    /\ UNCHANGED <<baseline_energies, energy_threshold, is_speaking, speech_start_time,
                   last_voice_time, audioVars, allButFlag_noVad, vadHist>>

\* C26 mutant: voice_ended is put and the VAD goes on speaking.
VadPutEnded_Mutant ==
    /\ vad_pc = "put_ended" /\ Len(vad_events_q) < EventCap
    /\ vad_events_q' = Append(vad_events_q, "voice_ended")
    /\ emitted' = IF "vad" \in watch THEN Append(emitted, "voice_ended")
                   ELSE emitted
    /\ vad_pc' = "det_test"
    /\ UNCHANGED <<is_speaking, speech_start_time, last_voice_time,
                   baseline_energies, energy_threshold, now, audio_q_vad, nFrames,
                   vadRest, quietSeen, bursts>>

\* self.vad_events_q.put({"type": "voice_ended", ...}), which waits for room;
\* then the three locals are reset.
VadPutEnded ==
    /\ vad_pc = "put_ended" /\ Len(vad_events_q) < EventCap
    /\ vad_events_q' = Append(vad_events_q, "voice_ended")
    /\ emitted' = IF "vad" \in watch THEN Append(emitted, "voice_ended")
                   ELSE emitted
    /\ is_speaking' = FALSE
    /\ speech_start_time' = None
    /\ last_voice_time' = None
    /\ vad_pc' = "det_test"
    /\ UNCHANGED <<baseline_energies, energy_threshold, now, audio_q_vad, nFrames,
                   vadRest, quietSeen, bursts>>

VadStep ==
    \/ VadCalTest \/ VadCalGet \/ VadCalTimeout
    \/ VadDetTest \/ VadDetFrame \/ VadDetTimeout
    \/ VadPutStarted \/ VadSetFlag \/ VadPutEnded

\* ------------------------------------------------- AudioInput._callback
cbRest == <<turnVars, flagVars, vadVars, vadHist, now, vad_events_q, asrVars, asrHist>>

\* if self.shared.stop_event.is_set(): raise sd.CallbackAbort
\* frame = indata.copy()
CbStart ==
    /\ cb_pc = "idle" /\ nFrames < MaxFrames
    /\ IF stop_event
       THEN /\ cb_pc' = "aborted"
            /\ UNCHANGED <<frame, nFrames>>
       ELSE \E e \in levels :
            /\ frame' = [seq |-> nFrames + 1, energy |-> e]
            /\ nFrames' = nFrames + 1
            /\ cb_pc' = "put_vad"
    /\ UNCHANGED <<audio_q_vad, audio_q_asr, levels, accepted, refused, taken, cbRest>>

\* What the histories of consumer c record for a put_nowait on queue q.
Offered(c, q) ==
    /\ accepted' = IF Len(q) < AudioCap
                   THEN [accepted EXCEPT ![c] = Append(@, frame.seq)] ELSE accepted
    /\ refused' = IF Len(q) < AudioCap
                  THEN refused ELSE [refused EXCEPT ![c] = @ \cup {frame.seq}]

\* for q in self.audio_queues: q.put_nowait(frame), first queue
CbPutVad ==
    /\ cb_pc = "put_vad"
    /\ audio_q_vad' = PutNowait(audio_q_vad, frame, AudioCap)
    /\ Offered("vad", audio_q_vad)
    /\ cb_pc' = "put_asr"
    /\ UNCHANGED <<audio_q_asr, frame, levels, nFrames, taken, cbRest>>

\* for q in self.audio_queues: q.put_nowait(frame), second queue
CbPutAsr ==
    /\ cb_pc = "put_asr"
    /\ audio_q_asr' = PutNowait(audio_q_asr, frame, AudioCap)
    /\ Offered("asr", audio_q_asr)
    /\ cb_pc' = "idle"
    /\ UNCHANGED <<audio_q_vad, frame, levels, nFrames, taken, cbRest>>

CbStep == CbStart \/ CbPutVad \/ CbPutAsr

\* ------------------------------------------ what surrounds the VAD worker
\* Time passes.
Tick ==
    /\ now < MaxTime
    /\ now' = now + 1
    /\ UNCHANGED <<audio_q_vad, audio_q_asr, vad_events_q, nFrames, cbVars, vadVars, vadHist,
                   turnVars, flagVars, asrVars, asrHist>>

\* The recognizer worker takes an event: self.vad_events_q.get_nowait()
EventTaken ==
    /\ vad_events_q # <<>>
    /\ vad_events_q' = Tail(vad_events_q)
    /\ UNCHANGED <<now, audio_q_vad, audio_q_asr, nFrames, cbVars, vadVars, vadHist,
                   turnVars, flagVars, asrVars, asrHist>>

\* The orchestrator polls the flag: shared.consume_barge_in()
FlagConsumed ==
    /\ barge_in
    /\ barge_in' = consume_barge_in(barge_in).flag
    /\ UNCHANGED <<audioVars, cbVars, vadVars, vadHist, allButFlag_noVad>>

NextVad ==
    \/ VadStep \/ CbStep \/ Tick \/ EventTaken \/ FlagConsumed
    \/ MainStart \/ Shutdown

SpecVad == Init /\ [][NextVad]_vars

\* The threads are scheduled fairly: a worker that can take a step takes one.
SpecVadFair == SpecVad /\ WF_vars(VadStep)

\* C7: calibration terminates. Unless a frame arrives or shutdown is
\* requested, the VAD worker eventually leaves the calibration loop and is in
\* the detection phase.
C7_CalibrationTerminates ==
    <>(vad_pc \in DetPcs \/ nFrames > 0 \/ stop_event)

\* --------------------------------------- the fanout and its two readers
\* The VAD worker takes a frame: self.audio_q.get(...)
FrameTakenVad ==
    /\ audio_q_vad # <<>>
    /\ audio_q_vad' = Tail(audio_q_vad)
    /\ taken' = [taken EXCEPT !["vad"] = @ + 1]
    /\ UNCHANGED <<audio_q_asr, cb_pc, frame, levels, accepted, refused, nFrames, cbRest>>

\* The recognizer worker takes a frame: self.audio_q.get(timeout=0.1)
FrameTakenAsr ==
    /\ audio_q_asr # <<>>
    /\ audio_q_asr' = Tail(audio_q_asr)
    /\ taken' = [taken EXCEPT !["asr"] = @ + 1]
    /\ UNCHANGED <<audio_q_vad, cb_pc, frame, levels, accepted, refused, nFrames, cbRest>>

NextFanout ==
    \/ CbStep \/ FrameTakenVad \/ FrameTakenAsr \/ MainStart \/ Shutdown

SpecFanout == Init /\ [][NextFanout]_vars

\* The capture numbers of the frames in a queue.
Seqs(q) == [i \in 1..Len(q) |-> q[i].seq]

\* The frames the callback has offered to consumer c so far.
OfferedTo(c) ==
    IF cb_pc = "put_vad" \/ (cb_pc = "put_asr" /\ c = "asr")
    THEN 1..(nFrames - 1) ELSE 1..nFrames

Queue(c) == IF c = "vad" THEN audio_q_vad ELSE audio_q_asr

\* C8: the fanout drops on full, per consumer, and never blocks. Each queue
\* holds, in capture order, exactly the frames that found room in it and have
\* not been taken; a frame that found the queue full is missing from that
\* queue only and left its content as it was; the callback can always take
\* its next step, whatever the fill levels.
C8_FanoutDropsOnFull ==
    /\ \A c \in Consumers :
        /\ Len(Queue(c)) <= AudioCap
        /\ taken[c] <= Len(accepted[c])
        /\ Seqs(Queue(c)) = SubSeq(accepted[c], taken[c] + 1, Len(accepted[c]))
        /\ Range(accepted[c]) \cup refused[c] = OfferedTo(c)
        /\ Range(accepted[c]) \cap refused[c] = {}
        /\ \A i, j \in 1..Len(accepted[c]) : i < j => accepted[c][i] < accepted[c][j]
    /\ cb_pc \in {"put_vad", "put_asr"} => ENABLED CbStep

\* C8 witness: after capacity + 1 pushes with nothing taken from it, the VAD's
\* queue holds the first frames and has lost the last one, while the
\* recognizer's queue, which had room, was given every frame.
C8_Witness ==
    /\ cb_pc = "idle" /\ nFrames = AudioCap + 1 /\ taken["vad"] = 0
    /\ Seqs(audio_q_vad) = [i \in 1..AudioCap |-> i]
    /\ refused["vad"] = {AudioCap + 1}
    /\ accepted["asr"] = [i \in 1..(AudioCap + 1) |-> i]

\* ------------------------------------------------ WhisperASRWorker._run
\* Events put on vad_events_q in one run.
MaxEvents == 4
\* n_pre_roll_frames: the capacity of the pre-roll ring.
n_pre_roll_frames == 2

EventTypes == {"voice_started", "voice_ended"}

\* C9 mutant: a full ring keeps what it has.
RingAppend_Mutant(ring, x) ==
    IF Len(ring) < n_pre_roll_frames THEN Append(ring, x) ELSE ring

\* pre_roll.append(frame) on deque(maxlen=n_pre_roll_frames)
RingAppend(ring, x) ==
    IF Len(ring) < n_pre_roll_frames THEN Append(ring, x) ELSE Append(Tail(ring), x)

\* C10 mutant: voice_ended leaves the buffer as it is.
BufferAfterEnded_Mutant == buffer_frames

\* buffer_frames = [] after voice_ended
BufferAfterEnded == <<>>

\* The last k elements of a sequence.
LastK(q, k) == IF Len(q) <= k THEN q ELSE SubSeq(q, Len(q) - k + 1, Len(q))

asrRest == <<turnButAsrText, flagVars, vadVars, vadHist, cbVars, now, audio_q_vad, nFrames>>

\* while not self.shared.stop_event.is_set()
AsrTest ==
    /\ asr_pc = "test"
    /\ asr_pc' = IF stop_event THEN "stopped" ELSE "events"
    /\ UNCHANGED <<listening, buffer_frames, pre_roll, asrHist, vad_events_q,
                   audio_q_asr, asr_text_q, asrRest>>

\* event = self.vad_events_q.get_nowait(), and its handling up to the call of
\* the recognizer.
AsrEvent ==
    /\ asr_pc = "events" /\ vad_events_q # <<>>
    /\ vad_events_q' = Tail(vad_events_q)
    /\ marks' = Tail(marks)
    /\ IF Head(vad_events_q) = "voice_started"
       THEN /\ listening' = TRUE
            /\ startMark' = Head(marks)
            /\ UNCHANGED endMark
            /\ buffer_frames' = pre_roll
            /\ snapshot' = LastK(consumed, n_pre_roll_frames)
            /\ lastHandled' = "voice_started"
            /\ endedRun' = 0 /\ callsRun' = 0
            /\ UNCHANGED <<asr_pc, nCalls, payload, paySnap>>
       ELSE /\ listening' = FALSE
            /\ endMark' = Head(marks)
            /\ UNCHANGED startMark
            /\ endedRun' = endedRun + 1
            /\ IF buffer_frames # <<>>
               THEN /\ asr_pc' = "transcribe"
                    /\ nCalls' = nCalls + 1 /\ callsRun' = callsRun + 1
                    /\ payload' = [i \in 1..Len(buffer_frames) |-> buffer_frames[i].seq]
                    /\ paySnap' = snapshot
                    /\ UNCHANGED <<buffer_frames, lastHandled>>
               ELSE /\ buffer_frames' = BufferAfterEnded
                    /\ lastHandled' = "voice_ended"
                    /\ UNCHANGED <<asr_pc, nCalls, callsRun, payload, paySnap>>
            /\ UNCHANGED snapshot
    /\ UNCHANGED <<pre_roll, nEvents, consumed, audio_q_asr, asr_text_q, asrRest>>

\* model.transcribe(...): a transcript, no text, or an exception, which no
\* frame of the thread catches.
AsrTranscribe ==
    /\ asr_pc = "transcribe"
    /\ \/ /\ asr_pc' = "emit"
          /\ UNCHANGED <<buffer_frames, lastHandled>>
       \/ /\ asr_pc' = "events"
          /\ buffer_frames' = BufferAfterEnded
          /\ lastHandled' = "voice_ended"
       \/ /\ asr_pc' = "dead"
          /\ UNCHANGED <<buffer_frames, lastHandled>>
    /\ UNCHANGED <<listening, pre_roll, nEvents, consumed, snapshot, nCalls, payload,
                   paySnap, endedRun, callsRun, marks, startMark, endMark,
                   vad_events_q,
                   audio_q_asr, asr_text_q, asrRest>>

\* self.asr_text_q.put(transcript), which waits for room; buffer_frames = []
AsrEmit ==
    /\ asr_pc = "emit" /\ Len(asr_text_q) < QueueCap
    /\ asr_text_q' = Append(asr_text_q, nCalls)
    /\ buffer_frames' = BufferAfterEnded
    /\ lastHandled' = "voice_ended"
    /\ asr_pc' = "events"
    /\ UNCHANGED <<listening, pre_roll, nEvents, consumed, snapshot, nCalls, payload,
                   paySnap, endedRun, callsRun, marks, startMark, endMark,
                   vad_events_q,
                   audio_q_asr, asrRest>>

\* except queue.Empty: pass
AsrEventsDone ==
    /\ asr_pc = "events" /\ vad_events_q = <<>>
    /\ asr_pc' = "frames"
    /\ UNCHANGED <<listening, buffer_frames, pre_roll, asrHist, vad_events_q,
                   audio_q_asr, asr_text_q, asrRest>>

\* frame = self.audio_q.get(timeout=0.1); pre_roll.append(frame);
\* if listening: buffer_frames.append(frame)
AsrFrame ==
    /\ asr_pc = "frames" /\ audio_q_asr # <<>>
    /\ audio_q_asr' = Tail(audio_q_asr)
    /\ pre_roll' = RingAppend(pre_roll, Head(audio_q_asr))
    /\ buffer_frames' = IF listening THEN Append(buffer_frames, Head(audio_q_asr))
                        ELSE buffer_frames
    /\ consumed' = Append(consumed, Head(audio_q_asr).seq)
    /\ taken' = [taken EXCEPT !["asr"] = @ + 1]
    /\ asr_pc' = "test"
    /\ UNCHANGED <<listening, nEvents, snapshot, nCalls, payload, paySnap, lastHandled,
                   endedRun, callsRun, marks, startMark, endMark,
                   vad_events_q, asr_text_q, cb_pc, frame,
                   levels, accepted, refused, turnButAsrText, flagVars, vadVars, vadHist, now,
                   audio_q_vad, nFrames>>

\* except queue.Empty: continue
AsrFrameTimeout ==
    /\ asr_pc = "frames" /\ audio_q_asr = <<>>
    /\ asr_pc' = "test"
    /\ UNCHANGED <<listening, buffer_frames, pre_roll, asrHist, vad_events_q,
                   audio_q_asr, asr_text_q, asrRest>>

AsrStep ==
    \/ AsrTest \/ AsrEvent \/ AsrTranscribe \/ AsrEmit \/ AsrEventsDone
    \/ AsrFrame \/ AsrFrameTimeout

\* --------------------------------- what surrounds the recognizer worker
\* An event is put on vad_events_q. The worker is held to its contract for
\* every order of events the queue can carry.
EventPut ==
    /\ nEvents < MaxEvents /\ Len(vad_events_q) < EventCap
    /\ \E e \in EventTypes : vad_events_q' = Append(vad_events_q, e)
    /\ marks' = Append(marks, IF "marks" \in watch THEN nFrames ELSE 0)
    /\ nEvents' = nEvents + 1
    /\ UNCHANGED <<asrVars, consumed, snapshot, nCalls, payload, paySnap, lastHandled,
                   endedRun, callsRun, startMark, endMark, audio_q_asr, asr_text_q,
                   asrRest>>

\* The orchestrator takes a transcript: asr_text_q.get_nowait()
TranscriptTaken ==
    /\ asr_text_q # <<>>
    /\ asr_text_q' = Tail(asr_text_q)
    /\ UNCHANGED <<asrVars, asrHist, vad_events_q, audio_q_asr, asrRest>>

NextAsr ==
    \/ AsrStep \/ CbStep \/ EventPut \/ TranscriptTaken

\* The worker does not look into a frame: one level of sound is enough.
SpecAsr == InitSilent /\ [][NextAsr]_vars

\* C9: the ring holds the last n_pre_roll_frames frames the worker has read,
\* utterance or not, and what the recognizer is given begins with the frames
\* the ring held when voice_started was handled, in the order they were read.
C9_PayloadBeginsWithPreRoll ==
    /\ Seqs(pre_roll) = LastK(consumed, n_pre_roll_frames)
    /\ listening => IsPrefix(snapshot, Seqs(buffer_frames))
    /\ nCalls > 0 => IsPrefix(paySnap, payload)

\* C9 witness: the recognizer has been given a payload that begins with a full
\* ring, from which older frames had been pushed out, followed by frames of
\* the utterance.
C9_Witness ==
    /\ nCalls > 0 /\ Len(paySnap) = n_pre_roll_frames /\ paySnap[1] > 1
    /\ Len(payload) > Len(paySnap)

\* C10: voice_ended is idempotent. Between two voice_started the recognizer
\* is called at most once however many voice_ended are taken, no call is made
\* with an empty buffer, and the buffer is empty once a voice_ended has been
\* handled.
C10_VoiceEndedIdempotent ==
    /\ callsRun <= 1
    /\ nCalls > 0 => payload # <<>>
    /\ lastHandled = "voice_ended" => buffer_frames = <<>>

\* C10 witness: a second voice_ended in a row has been handled, after a first
\* one that called the recognizer.
C10_Witness ==
    /\ endedRun >= 2 /\ callsRun = 1 /\ lastHandled = "voice_ended"
    /\ asr_pc = "events" /\ buffer_frames = <<>>

\* C17: a recognizer failure is contained: the worker's thread is never ended
\* by it, and goes on with an empty buffer as after an empty transcript.
C17_RecognizerFailureContained == asr_pc # "dead"

\* C19, as stated: the utterance buffer is empty whenever the listening flag
\* is false.
C19_BufferEmptyUnlessListening == ~listening => buffer_frames = <<>>

\* The worker is in its handling of a voice_ended: the recognizer call on the
\* buffer, or the forwarding of its transcript.
HandlingEnded == asr_pc \in {"transcribe", "emit", "dead"}

\* C19, amended: the utterance buffer is empty whenever the listening flag is
\* false and the worker is not in its handling of a voice_ended, which ends
\* with the reset of the buffer.
C19_BufferEmptyOutsideHandling ==
    (~listening /\ ~HandlingEnded) => buffer_frames = <<>>

\* C19 witness: an utterance with frames in the buffer has been given to the
\* recognizer, and the worker is back at its event loop, not listening, the
\* buffer empty.
C19_Witness ==
    /\ ~listening /\ asr_pc = "events" /\ buffer_frames = <<>>
    /\ callsRun = 1 /\ endedRun = 1 /\ Len(payload) > 1

\* The recognizer worker again, the run recording when each event was put.
InitMarks == InitThreads /\ levels = {0} /\ alphabet = TurnTokens /\ watch = {"marks"}

SpecMarks == InitMarks /\ [][NextAsr]_vars

\* The frames captured between the put of the voice_started and the put of
\* the voice_ended last handled that found room in the recognizer's queue.
Utterance == {f \in Range(accepted["asr"]) : startMark < f /\ f <= endMark}

\* C12: the payload a voice_started and the following voice_ended give the
\* recognizer is the pre-roll snapshot followed by every frame captured
\* between the two events: it begins with the snapshot, its frames are in
\* capture order with none twice, and no frame of the utterance is missing.
C12_PayloadIsUtterance ==
    asr_pc = "transcribe" =>
        /\ IsPrefix(paySnap, payload)
        /\ \A i, j \in 1..Len(payload) : i < j => payload[i] < payload[j]
        /\ Utterance \subseteq Range(payload)

\* ------------------------------------------- the token pass, segmentation
\* The token pass seen with the generation worker and the barge-in pass, the
\* synthesis worker reduced to its taking of sentences.  The streams yield
\* white space too, and the run records what the pass took and flushed.
InitSeg == InitThreads /\ levels = {0} /\ alphabet = Tokens /\ watch = {"seg"}

\* text = self.tts_text_q.get(timeout=0.1), by the synthesis worker.
SentenceTaken ==
    /\ UNCHANGED notTurnVars
    /\ tts_text_q # <<>>
    /\ tts_text_q' = Tail(tts_text_q)
    /\ UNCHANGED <<sharedVars, stop_llm_event, stop_tts_event, asr_text_q, llm_in_q,
                   llm_out_q, full_response, sentence_buffer, main_pc, user_text,
                   tok, llmVars, ttsVars, playVars, histVars>>

NextSeg == MainStep \/ LlmStep \/ VadTrigger \/ AsrTranscript \/ SentenceTaken

SpecSeg == InitSeg /\ [][NextSeg]_vars

\* The sentences a sequence of tokens is cut into, and the sentence left
\* open after it: a token with '.', '?' or '!' closes the sentence, the end
\* marker closes a sentence that is not empty.  With trimmed, a sentence is
\* flushed without the white space around it, and is empty when only white
\* space is in it.
RECURSIVE Sentences(_, _, _, _)
Sentences(toks, acc, out, trimmed) ==
    IF toks = <<>> THEN [out |-> out, acc |-> acc]
    ELSE LET t == Head(toks)
             cut(x) == IF trimmed THEN Strip(x) ELSE x
         IN  IF t = LLM_END
             THEN Sentences(Tail(toks), <<>>,
                            IF cut(acc) # <<>> THEN Append(out, cut(acc)) ELSE out,
                            trimmed)
             ELSE IF \E i \in 1..Len(t) : t[i] \in {".", "?", "!"}
             THEN Sentences(Tail(toks), <<>>, Append(out, cut(acc \o t)), trimmed)
             ELSE Sentences(Tail(toks), acc \o t, out, trimmed)

\* The token pass is between two tokens, no put to the synthesis queue pending.
BetweenTokens == main_pc \notin {"put_final", "put_sentence"}

\* C11, as stated: the sentences flushed since the accumulators were reset
\* are the concatenations of the tokens taken since then, cut at every token
\* with '.', '?' or '!' and at an end marker that finds the accumulator not
\* empty.
C11_FlushesConcatenation ==
    BetweenTokens => segOut = Sentences(segIn, <<>>, <<>>, FALSE).out

\* C11, amended: the sentences flushed since the accumulators were reset are
\* the concatenations of the tokens taken since then with the white space
\* around them removed, cut at every token with '.', '?' or '!' and at an end
\* marker that finds more than white space in the accumulator; the sentence
\* accumulator holds the tokens since the last cut, and after an end marker
\* both accumulators are empty.
C11_FlushesTrimmed ==
    LET s == Sentences(segIn, <<>>, <<>>, TRUE) IN
    /\ BetweenTokens =>
           /\ segOut = s.out
           /\ sentence_buffer = s.acc
           /\ (segIn # <<>> /\ segIn[Len(segIn)] = LLM_END) =>
                  full_response = NoText /\ sentence_buffer = NoText
    /\ ~BetweenTokens => s.out = Append(segOut, Strip(sentence_buffer))

\* C11: the stream "Hello", " there.", end marker has been taken, one
\* sentence "Hello there." was flushed and both accumulators are empty.
C11_Witness ==
    /\ segIn = << <<"H", "e", "l", "l", "o">>,
                  <<" ", "t", "h", "e", "r", "e", ".">>, LLM_END >>
    /\ segOut = << <<"H", "e", "l", "l", "o", " ", "t", "h", "e", "r", "e", ".">> >>
    /\ BetweenTokens
    /\ full_response = NoText /\ sentence_buffer = NoText

\* ----------------------------------- the orchestrator and its two workers
\* The orchestrator with the generation and the synthesis worker, playback
\* reduced to its taking of clips.  The run records the turns superseded in a
\* transcript pass, cancellation during a synthesizer call, and the turns
\* whose generation raised.
InitSynth ==
    InitThreads /\ levels = {0} /\ alphabet = TurnTokens
                /\ watch = {"pass", "synth", "fail"}

\* wav_path = self.play_q.get(timeout=0.1), by the playback thread.
ClipTaken ==
    /\ UNCHANGED notTurnVars
    /\ play_q # <<>>
    /\ play_q' = Tail(play_q)
    /\ UNCHANGED <<sharedVars, mainVars, llmVars, ttsVars, play_pc, play_wav, histVars>>

NextSynth ==
    \/ MainStep \/ LlmStep \/ TtsStep
    \/ VadTrigger \/ AsrTranscript \/ ClipTaken

SpecSynth == InitSynth /\ [][NextSynth]_vars

\* The worker takes a fragment from the stream of a superseded turn.
SupersededYields ==
    /\ llm_req \in superseded
    /\ llm_pc = "stream" /\ llm_pc' = "put_tok"

\* C13: when several transcripts are taken in one transcript pass the last
\* one wins: the stream of a turn that was followed by another dispatch in
\* the same pass yields no further fragment to the worker's loop.
C13_LastTranscriptWins == [][~SupersededYields]_vars

\* C14: a clip whose synthesizer call was running when stop_tts_event was set
\* is discarded: the synthesis worker does not go on to put it on play_q.
C14_CancelledClipDiscarded ==
    tts_pc = "put" => ~synthCancelled

\* Nothing is left for the orchestrator to take and the generation worker
\* waits for a request, in a run where no barge-in has been processed.
Quiescent ==
    /\ main_pc = "consume" /\ asr_text_q = <<>> /\ llm_in_q = <<>> /\ llm_out_q = <<>>
    /\ llm_pc = "get"
    /\ ~iterBarged /\ bargedTurns = {} /\ passTurns = {}

\* C16: a generation that raises ends the turn as the end marker does: once
\* the orchestrator has taken all the worker has put, both accumulators are
\* empty.
C16_FailureEndsTurn ==
    (failedTurns # {} /\ Quiescent) =>
        full_response = NoText /\ sentence_buffer = NoText

\* Without a failure the accumulators are empty in such a state.
QuiescentClean ==
    (failedTurns = {} /\ Quiescent) =>
        full_response = NoText /\ sentence_buffer = NoText

\* ------------------------------------ synthesis and playback, clip order
\* The synthesis worker and the playback thread, held to their contract for
\* every order in which an orchestrator can flush sentences, set, clear and
\* drain, and set the state.  Each sentence is the sentence of a turn of its
\* own, by which its clip is told from the others; the run records the clips
\* whose playback starts.
MaxSentences == 3

InitOrder == InitThreads /\ levels = {0} /\ alphabet = TurnTokens /\ watch = {"clips"}

orderRest == <<sharedVars, stop_llm_event, asr_text_q, llm_in_q, llm_out_q,
               full_response, sentence_buffer, main_pc, user_text, tok, llmVars,
               ttsVars, playVars, nTriggers, nTokens, obs, iterBarged,
               iterDispatched, flagTurns, passTurns, bargedTurns>>

\* tts_text_q.put(sentence), tts_text_q.put(leftover)
OrchSentence ==
    /\ UNCHANGED notTurnVars
    /\ nTurns < MaxSentences /\ Len(tts_text_q) < QueueCap
    /\ nTurns' = nTurns + 1
    /\ tts_text_q' = Append(tts_text_q,
                            [turn |-> nTurns + 1, text |-> <<"t", "h", "e", "r", "e", ".">>])
    /\ UNCHANGED <<stop_tts_event, orderRest>>

\* stop_tts_event.set()
OrchSetTts ==
    /\ UNCHANGED notTurnVars
    /\ stop_tts_event' = TRUE
    /\ UNCHANGED <<tts_text_q, nTurns, orderRest>>

\* while True: tts_text_q.get_nowait()
OrchDrainTts ==
    /\ UNCHANGED notTurnVars
    /\ tts_text_q' = <<>>
    /\ UNCHANGED <<stop_tts_event, nTurns, orderRest>>

\* stop_tts_event.clear()
OrchClrTts ==
    /\ UNCHANGED notTurnVars
    /\ stop_tts_event' = FALSE
    /\ UNCHANGED <<tts_text_q, nTurns, orderRest>>

\* shared.set_state(BotState.LISTENING, ...), shared.set_state(BotState.THINKING, ...)
OrchSetState ==
    /\ UNCHANGED notTurnVars
    /\ \E s \in {LISTENING, THINKING} : state' = s
    /\ UNCHANGED <<barge_in, stop_event, mainVars, llmVars, ttsVars, playVars, histVars>>

NextOrder ==
    \/ TtsStep \/ PlayStep
    \/ OrchSentence \/ OrchSetTts \/ OrchDrainTts \/ OrchClrTts \/ OrchSetState

SpecOrder == InitOrder /\ [][NextOrder]_vars

\* C18: the clips whose playback started are, in this order, sentences among
\* those flushed so far, each at most once and none before one flushed
\* earlier: an order-preserving subsequence of what was flushed.
C18_ClipsInFlushOrder ==
    /\ \A i \in 1..Len(played) : played[i].turn \in 1..nTurns
    /\ \A i, j \in 1..Len(played) : i < j => played[i].turn < played[j].turn

\* C18 witness: three sentences were flushed, the first and the third have
\* started playback in this order, the second was dropped on the way.
C18_Witness ==
    /\ nTurns = 3 /\ Len(played) = 2
    /\ played[1].turn = 1 /\ played[2].turn = 3

\* --------------------------------------------------------------- shutdown
\* The orchestrator and the generation worker with Ctrl+C: after it the
\* orchestrator takes nothing from llm_out_q any more.
NextStop ==
    \/ MainStep \/ Shutdown
    \/ LlmStep \/ LlmExit
    \/ VadTrigger \/ AsrTranscript \/ SentenceTaken

SpecStop == InitSilent /\ [][NextStop]_vars

\* C20: shutdown is observed by every worker: stop_event is never cleared,
\* and once it is set and the orchestrator has left its loop, the generation
\* worker has left its loop too or can take its next step towards leaving
\* it: it never waits on a queue for something that will not happen.
C20_ShutdownObserved ==
    (stop_event /\ main_pc = "done" /\ llm_pc # "done") => ENABLED (LlmStep \/ LlmExit)

\* ------------------------------------------- the orchestrator's three passes
\* The orchestrator with the synthesis worker, the generation worker reduced
\* to its taking of requests and its puts on llm_out_q, at any moment and of
\* any fragment.
MaxStream == 3

\* user_text = self.llm_in_q.get(timeout=0.1), by the generation worker.
RequestTaken ==
    /\ UNCHANGED notTurnVars
    /\ llm_in_q # <<>>
    /\ llm_in_q' = Tail(llm_in_q)
    /\ UNCHANGED <<sharedVars, stop_llm_event, stop_tts_event, asr_text_q, llm_out_q,
                   tts_text_q, full_response, sentence_buffer, main_pc, user_text,
                   tok, llmVars, ttsVars, playVars, histVars>>

\* self.llm_out_q.put(token), self.llm_out_q.put("[LLM_END]"), by the
\* generation worker.
TokenPut ==
    /\ UNCHANGED notTurnVars
    /\ nTokens < MaxStream /\ Len(llm_out_q) < QueueCap
    /\ \E t \in alphabet \cup {LLM_END} :
           llm_out_q' = Append(llm_out_q, [turn |-> 0, text |-> t])
    /\ nTokens' = nTokens + 1
    /\ UNCHANGED <<sharedVars, stop_llm_event, stop_tts_event, asr_text_q, llm_in_q,
                   tts_text_q, full_response, sentence_buffer, main_pc, user_text,
                   tok, llmVars, ttsVars, playVars, nTurns, nTriggers, obs,
                   iterBarged, iterDispatched, flagTurns, passTurns, bargedTurns>>

NextPass ==
    \/ MainStep \/ TtsStep
    \/ VadTrigger \/ AsrTranscript \/ RequestTaken \/ TokenPut \/ ClipTaken

SpecPass == InitSilent /\ [][NextPass]_vars

\* C21: the orchestrator never waits on a queue: whatever the fill levels,
\* the loop can take its next step.
C21_OrchestratorNeverBlocks == ENABLED MainStep

(***************************************************************************)
(* The detection loop alone, with its histories switched on: the events    *)
(* the VAD has put and whether the pending run of loud frames was          *)
(* interrupted.  The run starts where the calibration has just collected   *)
(* its frames in a quiet room and set the threshold; frames and ticks      *)
(* count from there, and the microphone hears silence and loud sound.      *)
(***************************************************************************)
InitDet ==
    /\ InitTurn /\ InitFlag /\ InitAudio /\ InitCallback /\ InitAsr
    /\ levels = {0, 40}
    /\ alphabet = TurnTokens
    /\ watch = {"vad"}
    /\ vad_pc = "det_test"
    /\ baseline_energies \in [1..CalFrames -> {2}]
    /\ energy_threshold = Threshold(baseline_energies)
    /\ is_speaking = FALSE /\ speech_start_time = None /\ last_voice_time = None
    /\ emitted = <<>> /\ quietSeen = FALSE /\ bursts = 0

NextDet ==
    \/ VadDetTest \/ VadDetFrame \/ VadDetTimeout
    \/ VadPutStarted \/ VadSetFlag \/ VadPutEnded
    \/ CbStep \/ Tick \/ EventTaken \/ FlagConsumed \/ MainStart \/ Shutdown

SpecDet == InitDet /\ [][NextDet]_vars

\* The detection loop takes a frame / promotes to speaking in this step.
FrameProcessed == vad_pc = "det_get" /\ vad_pc' # "det_get" /\ audio_q_vad # <<>>
Promotion == vad_pc # "put_started" /\ vad_pc' = "put_started"

\* A promotion that is not from silence, or follows a frame at or below the
\* threshold read since the timer was started, or comes before the timer has
\* run for min-speech-duration.
BadPromotion ==
    /\ Promotion
    /\ ~ (/\ FrameProcessed
          /\ Head(audio_q_vad).energy > energy_threshold
          /\ ~is_speaking
          /\ speech_start_time # None
          /\ ~quietSeen
          /\ now - speech_start_time >= MinSpeechTicks)

\* A frame at or below the threshold, read while not speaking, that leaves
\* the pending timer running.
TimerKept ==
    /\ FrameProcessed
    /\ Head(audio_q_vad).energy <= energy_threshold
    /\ ~is_speaking
    /\ speech_start_time' # None

\* C22: voice_started is emitted only from silence, when every frame read
\* since the pending timer was started was above the threshold and the timer
\* has run for at least min-speech-duration; a frame at or below the
\* threshold read while not speaking clears the timer.
C22_StartNeedsContinuousSpeech == [][~(BadPromotion \/ TimerKept)]_vars

\* C22 witness: a pending timer was cleared as a noise burst, and a later
\* unbroken run of loud frames, min-speech-duration long, is being announced.
C22_Witness ==
    /\ vad_pc = "put_started" /\ bursts >= 1
    /\ ~quietSeen /\ now - speech_start_time >= MinSpeechTicks

\* The flag rises in a step that is not the VAD's call of trigger_barge_in
\* after its voice_started; or the VAD, having put voice_started, does
\* anything but that call; or the call leaves the flag clear.
FlagAstray ==
    \/ /\ ~barge_in /\ barge_in'
       /\ ~ (/\ vad_pc = "trigger" /\ vad_pc' # "trigger"
             /\ emitted # <<>> /\ emitted[Len(emitted)] = "voice_started")
    \/ vad_pc = "put_started" /\ vad_pc' \notin {"put_started", "trigger"}
    \/ vad_pc = "trigger" /\ vad_pc' # "trigger" /\ ~barge_in'

\* C23: the VAD's next step after putting voice_started sets the barge-in
\* flag, whatever the BotState, and nothing else ever sets the flag.
C23_FlagFollowsVoiceStarted == [][~FlagAstray]_vars

\* C23 witness: the flag is set while the bot is listening, by the only
\* voice_started put so far.
C23_Witness ==
    /\ barge_in /\ state = LISTENING
    /\ emitted = <<"voice_started">> /\ vad_pc = "det_test"

\* The detection loop's read came back, with a frame or with a timeout, and
\* what it brought was not a frame above the threshold.
QuietPoll ==
    /\ vad_pc = "det_get" /\ vad_pc' # "det_get"
    /\ audio_q_vad # <<>> => Head(audio_q_vad).energy <= energy_threshold

\* voice_ended is decided before silence-duration has passed since the last
\* loud frame, or while silent; or a read that brings no loud frame finds
\* silence-duration exceeded and does not decide it; or the voice_ended put
\* does not follow a voice_started or leaves the VAD speaking.
EndAstray ==
    \/ /\ vad_pc # "put_ended" /\ vad_pc' = "put_ended"
       /\ ~ (/\ is_speaking /\ last_voice_time # None
             /\ now' - last_voice_time > SilenceTicks)
    \/ /\ QuietPoll /\ is_speaking
       /\ now' - last_voice_time > SilenceTicks
       /\ vad_pc' # "put_ended"
    \/ /\ vad_pc = "put_ended" /\ vad_pc' # "put_ended"
       /\ ~ (/\ ~is_speaking'
             /\ emitted # <<>> /\ emitted[Len(emitted)] = "voice_started"
             /\ emitted' = Append(emitted, "voice_ended"))

\* C24: while speaking, the first read with no loud frame that finds more
\* than silence-duration on the clock since the last loud frame, be it a
\* quiet frame or a timeout with no frame at all, demotes to silent with
\* one voice_ended; voice_ended is never decided earlier than that.
C24_EndByWallClock == [][~EndAstray]_vars

\* C24 witness: two loud frames were all the microphone ever delivered, and
\* the read timeouts alone have brought the VAD to put voice_ended.
C24_Witness ==
    /\ vad_pc = "put_ended" /\ nFrames = 2 /\ cb_pc = "idle"
    /\ audio_q_vad = <<>> /\ now - last_voice_time > SilenceTicks

\* C26: the events the VAD has put on the event channel alternate, the first
\* being voice_started: the odd ones are voice_started, the even ones
\* voice_ended.
C26_EventsAlternate ==
    \A i \in 1..Len(emitted) :
        emitted[i] = IF i % 2 = 1 THEN "voice_started" ELSE "voice_ended"

\* C26 witness: a second utterance has been announced after the first ended.
C26_Witness == Len(emitted) = 3 /\ emitted[3] = "voice_started"

\* What a barge-in pass that decides on no action must leave alone.
passKeeps ==
    <<state, stop_llm_event, stop_tts_event, llm_out_q, tts_text_q,
      full_response, sentence_buffer>>

\* The orchestrator's consume_barge_in returns true and does more than reset
\* the flag; or the state it then reads is LISTENING or IDLE and the pass
\* does anything but go on to the transcripts; or the flag rises again with
\* no new call of trigger_barge_in.
PassAstray ==
    \/ /\ main_pc = "consume" /\ main_pc' # "consume" /\ barge_in
       /\ ~ (barge_in' = FALSE /\ main_pc' = "get_state" /\ UNCHANGED passKeeps)
    \/ /\ main_pc = "get_state" /\ main_pc' # "get_state"
       /\ state \in {LISTENING, IDLE}
       /\ ~ (main_pc' = "asr" /\ UNCHANGED <<barge_in, passKeeps>>)
    \/ ~barge_in /\ barge_in' /\ nTriggers' = nTriggers

\* C25: a true barge-in flag consumed by an orchestrator that then reads
\* LISTENING or IDLE has one effect, the reset of the flag: the BotState,
\* both cancel signals, the token queue, the sentence queue and the two
\* accumulators stay as they are, and only a new trigger sets the flag again.
C25_ConsumeInListeningOnlyResets == [][~PassAstray]_vars

\* C25 witness: the one trigger so far was consumed before any transcript
\* was dispatched, the state is still LISTENING, no cancel signal is set
\* and the orchestrator has gone on to the transcripts.
C25_Witness ==
    /\ main_pc = "asr" /\ state = LISTENING /\ nTurns = 0
    /\ nTriggers = 1 /\ ~barge_in /\ ~iterBarged
    /\ ~stop_llm_event /\ ~stop_tts_event

\* ------------------------------------------------------ the end of a turn
\* No worker has anything to do and nothing is in flight: every queue is
\* empty, the flag is clear, the three workers wait at their reads and the
\* orchestrator is at the top of its loop.  Only new speech changes anything.
AtRest ==
    /\ ~stop_event /\ ~barge_in /\ main_pc = "consume"
    /\ asr_text_q = <<>> /\ llm_in_q = <<>> /\ llm_out_q = <<>>
    /\ tts_text_q = <<>> /\ play_q = <<>>
    /\ llm_pc = "get" /\ tts_pc = "get" /\ play_pc = "get"

\* No speech was detected while a turn was in flight.
NoSpeechInTurn == flagTurns = {} /\ passTurns = {} /\ bargedTurns = {}

\* The whole turn pipeline, with the record of the streams that raised.
InitEnd == InitThreads /\ levels = {0} /\ alphabet = TurnTokens /\ watch = {"fail"}

SpecEnd == InitEnd /\ [][Next]_vars

\* C27: every turn ends: in a run where no speech was detected during a
\* turn and no stream raised, when nothing is left for any worker to do the
\* state is back at LISTENING.
C27_TurnEnds ==
    (AtRest /\ NoSpeechInTurn /\ failedTurns = {}) => state = LISTENING

\* ------------------------------------------- what is left of a cancelled turn
\* The whole turn pipeline, with the record of the turns a barge-in pass
\* cancelled and of the turn dispatched last.
InitLeak == InitThreads /\ levels = {0} /\ alphabet = TurnTokens /\ watch = {"leak"}

SpecLeak == InitLeak /\ [][Next]_vars

\* A turn has been dispatched since the last cancelling barge-in pass.
NextTurnRuns == lastTurn # 0 /\ lastTurn \notin cancelled

\* The orchestrator takes a fragment of a cancelled turn from the token queue
\* and appends it to the accumulators of the turn that runs now.
TokenLeak ==
    /\ main_pc = "tokens" /\ llm_out_q # <<>> /\ llm_out_q' = Tail(llm_out_q)
    /\ Head(llm_out_q).text # LLM_END
    /\ Head(llm_out_q).turn \in cancelled
    /\ NextTurnRuns

\* Playback of a clip of a cancelled turn starts after the transcript pass
\* of a later turn has cleared stop_tts_event.
ClipLeak ==
    /\ play_pc # "playing" /\ play_pc' = "playing"
    /\ play_wav'.turn \in cancelled
    /\ NextTurnRuns /\ ~stop_tts_event

\* C28: nothing of a cancelled turn leaks into a later one: no fragment
\* generated for it is appended to the accumulators of the next turn, and no
\* clip of it starts playback once the next turn's transcript has cleared
\* the cancel signals.
C28_NoLeakIntoNextTurn == [][~(TokenLeak \/ ClipLeak)]_vars

\* Each kind of leak on its own.
C28_NoTokenLeak == [][~TokenLeak]_vars
C28_NoClipLeak == [][~ClipLeak]_vars

====
